---- MODULE Spec2Model ----
(***************************************************************************)
(* A model of the ConfigMirror operator: the Reconcile loop of             *)
(* internal/controller/configmirror_controller.go, the PostgreSQL adapter  *)
(* of internal/database/postgres.go, the object store they act on and the  *)
(* users who edit that store between passes.                               *)
(*                                                                         *)
(* One Reconcile pass is one action: the work queue runs at most one pass  *)
(* per mirror at a time and every call of a pass is a blocking round trip. *)
(* Timestamps (lastSyncTime, lastTransitionTime) are not modelled.         *)
(***************************************************************************)
EXTENDS Integers, Sequences, FiniteSets, TLC

VARIABLES cms, mirrors, db, dbClient, last, envSteps, failures, workers

vars == <<cms, mirrors, db, dbClient, last, envSteps, failures, workers>>

(***************************************************************************)
(* Bounds of the model.                                                    *)
(***************************************************************************)
\* user edits (ConfigMaps, mirror spec, mirror deletion) in one behaviour
MaxEnvSteps == 2
\* store or database calls that fail in one behaviour
MaxFailures == 1

(***************************************************************************)
(* Program constants.                                                      *)
(***************************************************************************)
finalizerName == "mirror.pawapay.io/finalizer"
ownerLabel == "mirror.pawapay.io/owner"
\* ctrl.Result{RequeueAfter: 5 * time.Minute}, in minutes
RequeueAfterMinutes == 5

(***************************************************************************)
(* Maps (Go map[string]string) are functions on a finite set of keys.      *)
(***************************************************************************)
EmptyMap == [k \in {} |-> ""]

MapOf(k, v) == [x \in {k} |-> v]

MapSet(m, k, v) == [x \in (DOMAIN m) \cup {k} |-> IF x = k THEN v ELSE m[x]]

MapHas(m, k, v) == k \in DOMAIN m /\ m[k] = v

Range(s) == {s[i] : i \in DOMAIN s}

(***************************************************************************)
(* The world the operator runs in.                                         *)
(***************************************************************************)
Namespaces == {"n1", "n2", "n3"}

\* the order in which a List call returns objects
NameOrder == <<"x", "y">>

Names == Range(NameOrder)

\* the two mirrors of the model; both live in namespace n1
MirrorA == [namespace |-> "n1", name |-> "a"]

MirrorB == [namespace |-> "n1", name |-> "b"]

MirrorIds == {MirrorA, MirrorB}

\* a finalizer owned by some other controller
foreignFinalizer == "other.io/finalizer"

\* an owner label value of a mirror that is not one of this operator's
foreignOwner == "n9.z"

\* the data / binaryData users write: PayloadTwo drops key k2, changes k1 and
\* drops the binary key

PayloadOne == [data |-> [k \in {"k1", "k2"} |-> "v1"], binaryData |-> MapOf("b1", "01")]

PayloadTwo == [data |-> MapOf("k1", "v2"), binaryData |-> EmptyMap]

\* the namespace whose objects the users of the model edit and delete
UserNamespace == "n1"

AppValues == {"test", "other"}

(***************************************************************************)
(* Label selectors (metav1.LabelSelector) and their compilation.           *)
(***************************************************************************)
SelApp == [matchLabels |-> MapOf("app", "test"), matchExpressions |-> <<>>]

SelNotOther == [matchLabels |-> EmptyMap,
                matchExpressions |-> << [key |-> "app", operator |-> "NotIn", values |-> {"other"}] >>]

\* an operator the compiler does not know
SelBad == [matchLabels |-> EmptyMap,
           matchExpressions |-> << [key |-> "app", operator |-> "Bogus", values |-> {}] >>]

ValidOperators == {"In", "NotIn", "Exists", "DoesNotExist"}

\* labels.NewRequirement: In and NotIn need values, Exists and DoesNotExist none
RequirementOk(e) ==
    /\ e.operator \in ValidOperators
    /\ (e.operator \in {"In", "NotIn"} => e.values # {})
    /\ (e.operator \in {"Exists", "DoesNotExist"} => e.values = {})

\* a compilation that accepts every selector
LabelSelectorAsSelectorNoError(ps) == FALSE

\* metav1.LabelSelectorAsSelector: the error of the compilation
LabelSelectorAsSelectorErr(ps) ==
    \E i \in DOMAIN ps.matchExpressions : ~RequirementOk(ps.matchExpressions[i])

RequirementMatches(e, ls) ==
    CASE e.operator = "In" -> e.key \in DOMAIN ls /\ ls[e.key] \in e.values
      [] e.operator = "NotIn" -> ~(e.key \in DOMAIN ls) \/ ~(ls[e.key] \in e.values)
      [] e.operator = "Exists" -> e.key \in DOMAIN ls
      [] e.operator = "DoesNotExist" -> ~(e.key \in DOMAIN ls)
      [] OTHER -> FALSE

\* selector.Matches(labels.Set(ls)) of a compiled selector
Matches(ps, ls) ==
    /\ \A k \in DOMAIN ps.matchLabels : MapHas(ls, k, ps.matchLabels[k])
    /\ \A i \in DOMAIN ps.matchExpressions : RequirementMatches(ps.matchExpressions[i], ls)

(***************************************************************************)
(* The object store: ConfigMaps keyed by <<namespace, name>>.              *)
(***************************************************************************)
Key(ns, name) == <<ns, name>>

Exists(c, ns, name) == Key(ns, name) \in DOMAIN c

\* fmt.Sprintf("%s.%s", owner.Namespace, owner.Name)
OwnerLabelValue(owner) == owner.namespace \o "." \o owner.name

HasOwner(o, owner) == MapHas(o.labels, ownerLabel, OwnerLabelValue(owner))

Put(c, o) == [k \in (DOMAIN c) \cup {Key(o.namespace, o.name)} |->
                 IF k = Key(o.namespace, o.name) THEN o ELSE c[k]]

Remove(c, ns, name) == [k \in (DOMAIN c) \ {Key(ns, name)} |-> c[k]]

\* r.List(ctx, list, client.InNamespace(ns), client.MatchingLabelsSelector{sel})
ListConfigMaps(c, ns, sel) ==
    LET hit == SelectSeq(NameOrder, LAMBDA n : Exists(c, ns, n) /\ Matches(sel, c[Key(ns, n)].labels))
    IN  [i \in 1..Len(hit) |-> c[Key(ns, hit[i])]]

\* r.List(ctx, list, client.InNamespace(ns), client.MatchingLabels{ownerLabel: v})
ListOwned(c, ns, owner) ==
    SelectSeq(NameOrder, LAMBDA n : Exists(c, ns, n) /\ HasOwner(c[Key(ns, n)], owner))

(***************************************************************************)
(* The persistence adapter: table configmaps as a set of rows.             *)
(***************************************************************************)
RowKey(r) == <<r.name, r.namespace, r.configmirror_namespace, r.configmirror_name>>

\* an insert that leaves an existing row of the key as it is
SaveConfigMapKeepExisting(d, cm, mirrorName, mirrorNamespace) ==
    LET row == [name |-> cm.name, namespace |-> cm.namespace, data |-> cm.data,
                labels |-> cm.labels, annotations |-> cm.annotations,
                configmirror_name |-> mirrorName,
                configmirror_namespace |-> mirrorNamespace]
    IN  IF \E r \in d : <<r.name, r.namespace, r.configmirror_namespace, r.configmirror_name>>
                          = <<row.name, row.namespace, row.configmirror_namespace,
                              row.configmirror_name>>
        THEN d ELSE d \cup {row}

\* INSERT ... ON CONFLICT (name, namespace, configmirror_namespace,
\* configmirror_name) DO UPDATE SET data, labels, annotations
SaveConfigMap(d, cm, mirrorName, mirrorNamespace) ==
    LET row == [name |-> cm.name, namespace |-> cm.namespace, data |-> cm.data,
                labels |-> cm.labels, annotations |-> cm.annotations,
                configmirror_name |-> mirrorName,
                configmirror_namespace |-> mirrorNamespace]
    IN  {r \in d : RowKey(r) # RowKey(row)} \cup {row}

RowMatches(r, name, namespace, mirrorName, mirrorNamespace) ==
    /\ r.name = name
    /\ r.namespace = namespace
    /\ r.configmirror_name = mirrorName
    /\ r.configmirror_namespace = mirrorNamespace

\* a delete that goes by name and namespace alone, whoever owns the row
DeleteConfigMapAnyOwner(d, name, namespace, mirrorName, mirrorNamespace) ==
    {r \in d : ~(r.name = name /\ r.namespace = namespace)}

\* DELETE FROM configmaps WHERE name = $1 AND namespace = $2 AND
\* configmirror_name = $3 AND configmirror_namespace = $4
DeleteConfigMap(d, name, namespace, mirrorName, mirrorNamespace) ==
    {r \in d : ~RowMatches(r, name, namespace, mirrorName, mirrorNamespace)}

\* what DeleteConfigMap returns when the statement itself succeeds
DeleteConfigMapResult(d, name, namespace, mirrorName, mirrorNamespace) ==
    IF \E r \in d : RowMatches(r, name, namespace, mirrorName, mirrorNamespace)
    THEN "nil" ELSE "pgx.ErrNoRows"

\* SELECT ... WHERE configmirror_name = $1 AND configmirror_namespace = $2
GetConfigMaps(d, mirrorName, mirrorNamespace) ==
    {r \in d : r.configmirror_name = mirrorName /\ r.configmirror_namespace = mirrorNamespace}

(***************************************************************************)
(* The controller's helpers. Each takes the store as it is when the call   *)
(* starts and the failure injected into the call, and returns the store    *)
(* afterwards with the call's error.                                       *)
(***************************************************************************)
\* a replicateConfigMap that merges the source's keys into the existing data
\* instead of overwriting the map
replicateConfigMapMerge(c, source, targetNS, owner, fail) ==
    LET label == MapOf(ownerLabel, OwnerLabelValue(owner))
        created == [name |-> source.name, namespace |-> targetNS, labels |-> label,
                    data |-> source.data, binaryData |-> source.binaryData,
                    annotations |-> EmptyMap]
        Merge(old, new) == [k \in (DOMAIN old) \cup (DOMAIN new) |->
                               IF k \in DOMAIN new THEN new[k] ELSE old[k]]
    IN  IF fail THEN [cms |-> c, err |-> TRUE]
        ELSE IF ~Exists(c, targetNS, source.name)
             THEN [cms |-> Put(c, created), err |-> FALSE]
             ELSE LET existing == c[Key(targetNS, source.name)]
                  IN  [cms |-> Put(c, [existing EXCEPT
                                         !.data = Merge(@, source.data),
                                         !.binaryData = Merge(@, source.binaryData),
                                         !.labels = MapSet(@, ownerLabel, label[ownerLabel])]),
                       err |-> FALSE]

replicateConfigMap(c, source, targetNS, owner, fail) ==
    LET target == [name |-> source.name, namespace |-> targetNS,
                   labels |-> MapOf(ownerLabel, OwnerLabelValue(owner)),
                   data |-> source.data, binaryData |-> source.binaryData,
                   annotations |-> EmptyMap]
    IN  IF fail THEN [cms |-> c, err |-> TRUE]
        ELSE IF ~Exists(c, targetNS, source.name)
             THEN [cms |-> Put(c, target), err |-> FALSE]
             ELSE LET existing == c[Key(targetNS, source.name)]
                  IN  [cms |-> Put(c, [existing EXCEPT
                                         !.data = target.data,
                                         !.binaryData = target.binaryData,
                                         !.labels = MapSet(@, ownerLabel, target.labels[ownerLabel])]),
                       err |-> FALSE]

\* a deleteReplicatedConfigMap without the owner-label check
deleteReplicatedConfigMapUnchecked(c, name, targetNS, owner, fail) ==
    IF fail THEN [cms |-> c, err |-> TRUE]
    ELSE IF ~Exists(c, targetNS, name) THEN [cms |-> c, err |-> FALSE]
    ELSE [cms |-> Remove(c, targetNS, name), err |-> FALSE]

\* a deleteReplicatedConfigMap that deletes in the first target namespace only
deleteReplicatedConfigMapFirstTarget(c, name, targetNS, owner, fail) ==
    IF fail THEN [cms |-> c, err |-> TRUE]
    ELSE IF ~Exists(c, targetNS, name) THEN [cms |-> c, err |-> FALSE]
    ELSE IF HasOwner(c[Key(targetNS, name)], owner) /\ targetNS = owner.spec.targetNamespaces[1]
         THEN [cms |-> Remove(c, targetNS, name), err |-> FALSE]
         ELSE [cms |-> c, err |-> FALSE]

deleteReplicatedConfigMap(c, name, targetNS, owner, fail) ==
    IF fail THEN [cms |-> c, err |-> TRUE]
    ELSE IF ~Exists(c, targetNS, name) THEN [cms |-> c, err |-> FALSE]
    ELSE IF HasOwner(c[Key(targetNS, name)], owner)
         THEN [cms |-> Remove(c, targetNS, name), err |-> FALSE]
         ELSE [cms |-> c, err |-> FALSE]

(***************************************************************************)
(* Injected failures: a set of failure points, each naming one call.       *)
(*   <<"get">>             r.Get of the mirror                             *)
(*   <<"finalizer">>       r.Update that adds or removes the finalizer     *)
(*   <<"list">>            r.List of the source objects                    *)
(*   <<"replicate", n, T>> Get/Create/Update in replicateConfigMap         *)
(*   <<"delete", n, T>>    Get/Delete in deleteReplicatedConfigMap         *)
(*   <<"clist", T>>        r.List in cleanupConfigMaps                     *)
(*   <<"cdelete", n, T>>   r.Delete in cleanupConfigMaps                   *)
(*   <<"status">>          r.Status().Update                               *)
(*   <<"save", n>>         DBClient.SaveConfigMap                          *)
(*   <<"dbdelete", n>>     DBClient.DeleteConfigMap                        *)
(*   <<"ping">>            DBClient.Ping                                   *)
(*   <<"dbdown">>          the database is unreachable: every call fails   *)
(***************************************************************************)
FailurePoints ==
    {<<"get">>, <<"finalizer">>, <<"list">>, <<"status">>, <<"ping">>, <<"dbdown">>}
    \cup {<<"replicate", n, t>> : n \in Names, t \in Namespaces}
    \cup {<<"delete", n, t>> : n \in Names, t \in Namespaces}
    \cup {<<"cdelete", n, t>> : n \in Names, t \in Namespaces}
    \cup {<<"clist", t>> : t \in Namespaces}
    \cup {<<"save", n>> : n \in Names}
    \cup {<<"dbdelete", n>> : n \in Names}

\* cleanupConfigMaps, the deletes of one target namespace: items is the list
\* the namespace returned, i the next item
RECURSIVE cleanupItems(_, _, _, _, _)
cleanupItems(c, items, i, targetNS, fails) ==
    IF i > Len(items) THEN [cms |-> c, err |-> FALSE, hit |-> {}]
    ELSE IF <<"cdelete", items[i], targetNS>> \in fails
         THEN [cms |-> c, err |-> TRUE, hit |-> {<<"cdelete", items[i], targetNS>>}]
         ELSE cleanupItems(Remove(c, targetNS, items[i]), items, i + 1, targetNS, fails)

RECURSIVE cleanupTargets(_, _, _, _)
cleanupTargets(c, configMirror, i, fails) ==
    LET targets == configMirror.spec.targetNamespaces
    IN  IF i > Len(targets) THEN [cms |-> c, err |-> FALSE, hit |-> {}]
        ELSE IF <<"clist", targets[i]>> \in fails
             THEN [cms |-> c, err |-> TRUE, hit |-> {<<"clist", targets[i]>>}]
             ELSE LET r == cleanupItems(c, ListOwned(c, targets[i], configMirror), 1,
                                        targets[i], fails)
                  IN  IF r.err THEN r
                      ELSE cleanupTargets(r.cms, configMirror, i + 1, fails)

cleanupConfigMaps(c, configMirror, fails) == cleanupTargets(c, configMirror, 1, fails)

\* a target loop that stops at the first target that fails
RECURSIVE replicateTargetsStopOnError(_, _, _, _, _)
replicateTargetsStopOnError(c, cm, i, configMirror, fails) ==
    LET targets == configMirror.spec.targetNamespaces
    IN  IF i > Len(targets) THEN [cms |-> c, targets |-> <<>>]
        ELSE LET r == replicateConfigMap(c, cm, targets[i], configMirror,
                                         <<"replicate", cm.name, targets[i]>> \in fails)
                 rest == replicateTargetsStopOnError(r.cms, cm, i + 1, configMirror, fails)
             IN  IF r.err THEN [cms |-> r.cms, targets |-> <<>>]
                 ELSE [cms |-> rest.cms, targets |-> <<targets[i]>> \o rest.targets]

\* Reconcile, lines 116-123: one source object into every target namespace,
\* recording the targets that succeeded
RECURSIVE replicateTargets(_, _, _, _, _)
replicateTargets(c, cm, i, configMirror, fails) ==
    LET targets == configMirror.spec.targetNamespaces
    IN  IF i > Len(targets) THEN [cms |-> c, targets |-> <<>>]
        ELSE LET r == replicateConfigMap(c, cm, targets[i], configMirror,
                                         <<"replicate", cm.name, targets[i]>> \in fails)
                 rest == replicateTargets(r.cms, cm, i + 1, configMirror, fails)
             IN  [cms |-> rest.cms,
                  targets |-> IF r.err THEN rest.targets ELSE <<targets[i]>> \o rest.targets]

\* r.DBClient != nil && Spec.Database != nil && Spec.Database.Enabled
DatabaseEnabled(client, configMirror) ==
    client /\ configMirror.spec.database.present /\ configMirror.spec.database.enabled

DbCallFails(point, fails) == point \in fails \/ <<"dbdown">> \in fails

\* an object loop that records a source object only once its row is saved
RECURSIVE replicateAllSavedOnly(_, _, _, _, _, _, _)
replicateAllSavedOnly(c, d, items, i, configMirror, dbOn, fails) ==
    IF i > Len(items) THEN [cms |-> c, db |-> d, replicatedCMs |-> <<>>]
    ELSE LET cm == items[i]
             r == replicateTargets(c, cm, 1, configMirror, fails)
             saveFails == dbOn /\ DbCallFails(<<"save", cm.name>>, fails)
             d1 == IF dbOn /\ ~saveFails
                   THEN SaveConfigMap(d, cm, configMirror.name, configMirror.namespace)
                   ELSE d
             rest == replicateAllSavedOnly(r.cms, d1, items, i + 1, configMirror, dbOn, fails)
         IN  [cms |-> rest.cms, db |-> rest.db,
              replicatedCMs |->
                  IF saveFails THEN rest.replicatedCMs
                  ELSE << [name |-> cm.name, sourceNamespace |-> cm.namespace,
                           targets |-> r.targets] >> \o rest.replicatedCMs]

\* Reconcile, lines 115-137: the loop over the listed source objects
RECURSIVE replicateAll(_, _, _, _, _, _, _)
replicateAll(c, d, items, i, configMirror, dbOn, fails) ==
    IF i > Len(items) THEN [cms |-> c, db |-> d, replicatedCMs |-> <<>>]
    ELSE LET cm == items[i]
             r == replicateTargets(c, cm, 1, configMirror, fails)
             d1 == IF dbOn /\ ~DbCallFails(<<"save", cm.name>>, fails)
                   THEN SaveConfigMap(d, cm, configMirror.name, configMirror.namespace)
                   ELSE d
             rest == replicateAll(r.cms, d1, items, i + 1, configMirror, dbOn, fails)
         IN  [cms |-> rest.cms, db |-> rest.db,
              replicatedCMs |-> << [name |-> cm.name, sourceNamespace |-> cm.namespace,
                                    targets |-> r.targets] >> \o rest.replicatedCMs]

\* an orphan loop that gives the orphan up at the first target namespace whose
\* delete fails
RECURSIVE deleteFromTargetsStopOnError(_, _, _, _, _)
deleteFromTargetsStopOnError(c, name, i, configMirror, fails) ==
    LET targets == configMirror.spec.targetNamespaces
    IN  IF i > Len(targets) THEN c
        ELSE IF <<"delete", name, targets[i]>> \in fails THEN c
        ELSE deleteFromTargetsStopOnError(
                 deleteReplicatedConfigMap(c, name, targets[i], configMirror, FALSE).cms,
                 name, i + 1, configMirror, fails)

\* Reconcile, lines 150-154: one orphan out of every target namespace
RECURSIVE deleteFromTargets(_, _, _, _, _)
deleteFromTargets(c, name, i, configMirror, fails) ==
    LET targets == configMirror.spec.targetNamespaces
    IN  IF i > Len(targets) THEN c
        ELSE deleteFromTargets(
                 deleteReplicatedConfigMap(c, name, targets[i], configMirror,
                                           <<"delete", name, targets[i]>> \in fails).cms,
                 name, i + 1, configMirror, fails)

\* Reconcile, lines 139-163: the previously tracked names that are not in the
\* current list are deleted from the targets and from the database
RECURSIVE cleanupOrphans(_, _, _, _, _, _, _, _)
cleanupOrphans(c, d, prev, i, currentConfigMapNames, configMirror, dbOn, fails) ==
    IF i > Len(prev) THEN [cms |-> c, db |-> d]
    ELSE IF prev[i].name \in currentConfigMapNames
         THEN cleanupOrphans(c, d, prev, i + 1, currentConfigMapNames, configMirror, dbOn, fails)
         ELSE LET c1 == deleteFromTargets(c, prev[i].name, 1, configMirror, fails)
                  d1 == IF dbOn /\ ~DbCallFails(<<"dbdelete", prev[i].name>>, fails)
                        THEN DeleteConfigMap(d, prev[i].name, prev[i].sourceNamespace,
                                             configMirror.name, configMirror.namespace)
                        ELSE d
              IN  cleanupOrphans(c1, d1, prev, i + 1, currentConfigMapNames, configMirror,
                                 dbOn, fails)

\* a SetStatusCondition that replaces a condition only when its status is the
\* same, and appends the new one otherwise
SetStatusConditionByStatus(conditions, newCondition) ==
    IF \E i \in DOMAIN conditions :
           conditions[i].type = newCondition.type /\ conditions[i].status = newCondition.status
    THEN [i \in DOMAIN conditions |->
             IF conditions[i].type = newCondition.type THEN newCondition ELSE conditions[i]]
    ELSE Append(conditions, newCondition)

\* a SetStatusCondition that appends the new condition whatever is there
SetStatusConditionAppend(conditions, newCondition) == Append(conditions, newCondition)

\* meta.SetStatusCondition: the condition of that type is replaced, or the
\* new one appended when there is none
SetStatusCondition(conditions, newCondition) ==
    IF \E i \in DOMAIN conditions : conditions[i].type = newCondition.type
    THEN LET first == CHOOSE i \in DOMAIN conditions :
                          /\ conditions[i].type = newCondition.type
                          /\ \A j \in 1..(i - 1) : conditions[j].type # newCondition.type
         IN  [conditions EXCEPT ![first] = newCondition]
    ELSE Append(conditions, newCondition)

\* an updateStatus that empties replicatedConfigMaps when Ready is False
updateStatusResetOnFailure(stored, configMirror, status, reason, message, fail) ==
    LET condition == [type |-> "Ready", status |-> status,
                      observedGeneration |-> configMirror.generation,
                      reason |-> reason, message |-> message]
    IN  IF fail THEN stored
        ELSE [stored EXCEPT !.status =
                 [configMirror.status EXCEPT
                     !.conditions = SetStatusCondition(@, condition),
                     !.replicatedConfigMaps = IF status = "False" THEN <<>> ELSE @]]

\* updateStatus: the Ready condition is set on the object in memory and its
\* status written over the stored one; a failed write is dropped (line 273).
\* The result is the mirror as stored afterwards.
updateStatus(stored, configMirror, status, reason, message, fail) ==
    LET condition == [type |-> "Ready", status |-> status,
                      observedGeneration |-> configMirror.generation,
                      reason |-> reason, message |-> message]
    IN  IF fail THEN stored
        ELSE [stored EXCEPT !.status =
                 [configMirror.status EXCEPT
                     !.conditions = SetStatusCondition(@, condition)]]

\* the namespace Reconcile lists the source objects in (line 104)
SourceListNamespace(configMirror) == configMirror.namespace

(***************************************************************************)
(* Reconcile. The result of a pass is the store, the mirrors and the       *)
(* table afterwards, the returned error and requeue-after, the path the    *)
(* pass took and the injected failures it ran into.                        *)
(***************************************************************************)
\* a result that asks for the periodic requeue on every path
OutcomeRequeueAlways(c, ms, d, err, requeue, path, hit, listed, orphans) ==
    [cms |-> c, mirrors |-> ms, db |-> d, err |-> err, requeue |-> RequeueAfterMinutes,
     path |-> path, hit |-> hit, listed |-> listed, orphans |-> orphans]

Outcome(c, ms, d, err, requeue, path, hit, listed, orphans) ==
    [cms |-> c, mirrors |-> ms, db |-> d, err |-> err, requeue |-> requeue,
     path |-> path, hit |-> hit, listed |-> listed, orphans |-> orphans]

HasFinalizer(configMirror) == finalizerName \in Range(configMirror.finalizers)

\* an AddFinalizer that leaves the finalizers as they are
AddFinalizerSkipped(configMirror) == configMirror

\* controllerutil.AddFinalizer: appended unless already there
AddFinalizer(configMirror) ==
    IF HasFinalizer(configMirror) THEN configMirror
    ELSE [configMirror EXCEPT !.finalizers = Append(@, finalizerName)]

\* controllerutil.RemoveFinalizer: every occurrence is dropped
RemoveFinalizer(configMirror) ==
    [configMirror EXCEPT !.finalizers = SelectSeq(@, LAMBDA f : f # finalizerName)]

\* r.Update of the mirror: the API server removes a mirror that has deletion
\* intent and no finalizer left
StoreMirror(ms, id, configMirror) ==
    IF configMirror.deleting /\ configMirror.finalizers = <<>>
    THEN [k \in (DOMAIN ms) \ {id} |-> ms[k]]
    ELSE [ms EXCEPT ![id] = configMirror]

\* a deletion branch that removes the finalizer even when the cleanup failed
ReconcileTerminatingFinalizerAnyway(id, c, ms, d, fails) ==
    LET configMirror == ms[id]
        cl == cleanupConfigMaps(c, configMirror, fails)
    IN  IF ~HasFinalizer(configMirror)
        THEN Outcome(c, ms, d, FALSE, 0, "Terminating", {}, {}, {})
        ELSE IF cl.err
        THEN Outcome(cl.cms, StoreMirror(ms, id, RemoveFinalizer(configMirror)), d,
                     TRUE, 0, "CleanupFailed", cl.hit, {}, {})
        ELSE IF <<"finalizer">> \in fails
        THEN Outcome(cl.cms, ms, d, TRUE, 0, "RemoveFinalizerFailed", {<<"finalizer">>}, {}, {})
        ELSE Outcome(cl.cms, StoreMirror(ms, id, RemoveFinalizer(configMirror)), d,
                     FALSE, 0, "Finalized", {}, {}, {})

\* a deletion branch that reports a failed cleanup in the status of the mirror
ReconcileTerminatingStatusOnFailure(id, c, ms, d, fails) ==
    LET configMirror == ms[id]
        cl == cleanupConfigMaps(c, configMirror, fails)
    IN  IF ~HasFinalizer(configMirror)
        THEN Outcome(c, ms, d, FALSE, 0, "Terminating", {}, {}, {})
        ELSE IF cl.err
        THEN Outcome(cl.cms,
                     [ms EXCEPT ![id] = updateStatus(ms[id], configMirror, "False",
                                                     "CleanupFailed", "cleanup failed", FALSE)],
                     d, TRUE, 0, "CleanupFailed", cl.hit, {}, {})
        ELSE IF <<"finalizer">> \in fails
        THEN Outcome(cl.cms, ms, d, TRUE, 0, "RemoveFinalizerFailed", {<<"finalizer">>}, {}, {})
        ELSE Outcome(cl.cms, StoreMirror(ms, id, RemoveFinalizer(configMirror)), d,
                     FALSE, 0, "Finalized", {}, {}, {})

\* Reconcile, lines 80-93: the mirror has deletion intent
ReconcileTerminating(id, c, ms, d, fails) ==
    LET configMirror == ms[id]
        cl == cleanupConfigMaps(c, configMirror, fails)
    IN  IF ~HasFinalizer(configMirror)
        THEN Outcome(c, ms, d, FALSE, 0, "Terminating", {}, {}, {})
        ELSE IF cl.err
        THEN Outcome(cl.cms, ms, d, TRUE, 0, "CleanupFailed", cl.hit, {}, {})
        ELSE IF <<"finalizer">> \in fails
        THEN Outcome(cl.cms, ms, d, TRUE, 0, "RemoveFinalizerFailed", {<<"finalizer">>}, {}, {})
        ELSE Outcome(cl.cms, StoreMirror(ms, id, RemoveFinalizer(configMirror)), d,
                     FALSE, 0, "Finalized", {}, {}, {})

\* a replication branch that empties databaseStatus when persistence is off
ReconcileReplicateResetsDatabaseStatus(id, c, ms, d, client, configMirror, fails) ==
    LET spec == configMirror.spec
        statusFails == <<"status">> \in fails
        statusHit == {<<"status">>} \cap fails
        dbOn == DatabaseEnabled(client, configMirror)
        items == ListConfigMaps(c, SourceListNamespace(configMirror), spec.selector)
        currentConfigMapNames == {items[i].name : i \in DOMAIN items}
        prev == configMirror.status.replicatedConfigMaps
        orphanNames == {prev[i].name : i \in DOMAIN prev} \ currentConfigMapNames
        targetSet == Range(spec.targetNamespaces)
        rep == replicateAll(c, d, items, 1, configMirror, dbOn, fails)
        orp == cleanupOrphans(rep.cms, rep.db, prev, 1, currentConfigMapNames,
                              configMirror, dbOn, fails)
        databaseStatus ==
            IF ~dbOn THEN [present |-> FALSE, connected |-> FALSE, message |-> ""]
            ELSE IF DbCallFails(<<"ping">>, fails)
                 THEN [present |-> TRUE, connected |-> FALSE, message |-> "ping failed"]
                 ELSE [present |-> TRUE, connected |-> TRUE, message |-> "Connected"]
        done == [configMirror EXCEPT
                   !.status.replicatedConfigMaps = rep.replicatedCMs,
                   !.status.observedGeneration = configMirror.generation,
                   !.status.databaseStatus = databaseStatus]
        hit == {f \in fails :
                   \/ f = <<"status">>
                   \/ f[1] = "replicate" /\ f[2] \in currentConfigMapNames /\ f[3] \in targetSet
                   \/ f[1] = "delete" /\ f[2] \in orphanNames /\ f[3] \in targetSet
                   \/ dbOn /\ f[1] = "save" /\ f[2] \in currentConfigMapNames
                   \/ dbOn /\ f[1] = "dbdelete" /\ f[2] \in orphanNames
                   \/ dbOn /\ f \in {<<"ping">>, <<"dbdown">>}}
    IN  IF LabelSelectorAsSelectorErr(spec.selector)
        THEN Outcome(c, [ms EXCEPT ![id] = updateStatus(ms[id], configMirror, "False",
                                               "InvalidSelector", "invalid selector", statusFails)],
                     d, TRUE, 0, "InvalidSelector", statusHit, {}, {})
        ELSE IF <<"list">> \in fails
        THEN Outcome(c, [ms EXCEPT ![id] = updateStatus(ms[id], configMirror, "False",
                                               "ListFailed", "list failed", statusFails)],
                     d, TRUE, 0, "ListFailed", {<<"list">>} \cup statusHit, {}, {})
        ELSE Outcome(orp.cms,
                     [ms EXCEPT ![id] = updateStatus(ms[id], done, "True", "ReconcileSuccess",
                                               "Successfully replicated ConfigMaps", statusFails)],
                     orp.db, FALSE, RequeueAfterMinutes, "Replicated", hit,
                     currentConfigMapNames, orphanNames)

\* Reconcile, lines 95-185: configMirror is the mirror after the finalizer
\* step, ms the mirrors as stored
ReconcileReplicate(id, c, ms, d, client, configMirror, fails) ==
    LET spec == configMirror.spec
        statusFails == <<"status">> \in fails
        statusHit == {<<"status">>} \cap fails
        dbOn == DatabaseEnabled(client, configMirror)
        items == ListConfigMaps(c, SourceListNamespace(configMirror), spec.selector)
        currentConfigMapNames == {items[i].name : i \in DOMAIN items}
        prev == configMirror.status.replicatedConfigMaps
        orphanNames == {prev[i].name : i \in DOMAIN prev} \ currentConfigMapNames
        targetSet == Range(spec.targetNamespaces)
        rep == replicateAll(c, d, items, 1, configMirror, dbOn, fails)
        orp == cleanupOrphans(rep.cms, rep.db, prev, 1, currentConfigMapNames,
                              configMirror, dbOn, fails)
        databaseStatus ==
            IF ~dbOn THEN configMirror.status.databaseStatus
            ELSE IF DbCallFails(<<"ping">>, fails)
                 THEN [present |-> TRUE, connected |-> FALSE, message |-> "ping failed"]
                 ELSE [present |-> TRUE, connected |-> TRUE, message |-> "Connected"]
        done == [configMirror EXCEPT
                   !.status.replicatedConfigMaps = rep.replicatedCMs,
                   !.status.observedGeneration = configMirror.generation,
                   !.status.databaseStatus = databaseStatus]
        hit == {f \in fails :
                   \/ f = <<"status">>
                   \/ f[1] = "replicate" /\ f[2] \in currentConfigMapNames /\ f[3] \in targetSet
                   \/ f[1] = "delete" /\ f[2] \in orphanNames /\ f[3] \in targetSet
                   \/ dbOn /\ f[1] = "save" /\ f[2] \in currentConfigMapNames
                   \/ dbOn /\ f[1] = "dbdelete" /\ f[2] \in orphanNames
                   \/ dbOn /\ f \in {<<"ping">>, <<"dbdown">>}}
    IN  IF LabelSelectorAsSelectorErr(spec.selector)
        THEN Outcome(c, [ms EXCEPT ![id] = updateStatus(ms[id], configMirror, "False",
                                               "InvalidSelector", "invalid selector", statusFails)],
                     d, TRUE, 0, "InvalidSelector", statusHit, {}, {})
        ELSE IF <<"list">> \in fails
        THEN Outcome(c, [ms EXCEPT ![id] = updateStatus(ms[id], configMirror, "False",
                                               "ListFailed", "list failed", statusFails)],
                     d, TRUE, 0, "ListFailed", {<<"list">>} \cup statusHit, {}, {})
        ELSE Outcome(orp.cms,
                     [ms EXCEPT ![id] = updateStatus(ms[id], done, "True", "ReconcileSuccess",
                                               "Successfully replicated ConfigMaps", statusFails)],
                     orp.db, FALSE, RequeueAfterMinutes, "Replicated", hit,
                     currentConfigMapNames, orphanNames)

\* a not-found branch that asks for a requeue
NotFoundOutcomeRequeue(c, ms, d) ==
    Outcome(c, ms, d, FALSE, RequeueAfterMinutes, "NotFound", {}, {}, {})

\* Reconcile, lines 66-68: the mirror is not found
NotFoundOutcome(c, ms, d) == Outcome(c, ms, d, FALSE, 0, "NotFound", {}, {}, {})

\* a Reconcile that goes through replication when the update adding the
\* finalizer has failed, and returns that error at the end
ReconcileResultReplicateFirst(id, c, ms, d, client, fails) ==
    IF <<"get">> \in fails
    THEN Outcome(c, ms, d, TRUE, 0, "GetFailed", {<<"get">>}, {}, {})
    ELSE IF id \notin DOMAIN ms
    THEN NotFoundOutcome(c, ms, d)
    ELSE IF ms[id].deleting
    THEN ReconcileTerminating(id, c, ms, d, fails)
    ELSE IF HasFinalizer(ms[id])
    THEN ReconcileReplicate(id, c, ms, d, client, ms[id], fails)
    ELSE IF <<"finalizer">> \in fails
    THEN LET r == ReconcileReplicate(id, c, ms, d, client, ms[id], {})
         IN  Outcome(r.cms, r.mirrors, r.db, TRUE, 0, "AddFinalizerFailed",
                     {<<"finalizer">>}, r.listed, r.orphans)
    ELSE LET withFinalizer == AddFinalizer(ms[id])
         IN  ReconcileReplicate(id, c, StoreMirror(ms, id, withFinalizer), d, client,
                                withFinalizer, fails)

\* Reconcile, lines 61-93: fetch, then the finalizer protocol
ReconcileResult(id, c, ms, d, client, fails) ==
    IF <<"get">> \in fails
    THEN Outcome(c, ms, d, TRUE, 0, "GetFailed", {<<"get">>}, {}, {})
    ELSE IF id \notin DOMAIN ms
    THEN NotFoundOutcome(c, ms, d)
    ELSE IF ms[id].deleting
    THEN ReconcileTerminating(id, c, ms, d, fails)
    ELSE IF HasFinalizer(ms[id])
    THEN ReconcileReplicate(id, c, ms, d, client, ms[id], fails)
    ELSE IF <<"finalizer">> \in fails
    THEN Outcome(c, ms, d, TRUE, 0, "AddFinalizerFailed", {<<"finalizer">>}, {}, {})
    ELSE LET withFinalizer == AddFinalizer(ms[id])
             r == ReconcileReplicate(id, c, StoreMirror(ms, id, withFinalizer), d, client,
                                     withFinalizer, fails)
         IN  r

(***************************************************************************)
(* Mirrors as users write them.                                            *)
(***************************************************************************)
DbNil == [present |-> FALSE, enabled |-> FALSE]

DbEnabled == [present |-> TRUE, enabled |-> TRUE]

DbDisabled == [present |-> TRUE, enabled |-> FALSE]

MirrorSpec(sourceNamespace, targetNamespaces, selector, database) ==
    [sourceNamespace |-> sourceNamespace, targetNamespaces |-> targetNamespaces,
     selector |-> selector, database |-> database]

\* the specs users give mirror a: the mirror's own namespace as the source,
\* another namespace as the source, the source namespace among the targets,
\* one target only, a selector that does not compile
SpecChoices ==
    { MirrorSpec("n1", <<"n2", "n3">>, SelApp, DbEnabled),
      MirrorSpec("n2", <<"n3">>, SelApp, DbNil),
      MirrorSpec("n1", <<"n1", "n2">>, SelApp, DbEnabled),
      MirrorSpec("n1", <<"n2">>, SelApp, DbDisabled),
      MirrorSpec("n1", <<"n2">>, SelBad, DbEnabled) }

\* the spec of mirror b, when it exists
SpecOfB == MirrorSpec("n1", <<"n2">>, SelNotOther, DbEnabled)

NoStatus ==
    [conditions |-> <<>>, replicatedConfigMaps |-> <<>>,
     databaseStatus |-> [present |-> FALSE, connected |-> FALSE, message |-> ""],
     observedGeneration |-> 0]

NewMirror(id, spec, finalizers) ==
    [namespace |-> id.namespace, name |-> id.name, spec |-> spec,
     finalizers |-> finalizers, deleting |-> FALSE, generation |-> 1,
     status |-> NoStatus]

NewConfigMap(ns, name, labels, payload) ==
    [namespace |-> ns, name |-> name, labels |-> labels, data |-> payload.data,
     binaryData |-> payload.binaryData, annotations |-> EmptyMap]

\* the ConfigMaps users create: objects in n1 and n2 that carry no owner
\* label, an object in n3 that carries another owner's label
UserConfigMaps ==
    { NewConfigMap("n1", "x", MapOf("app", "test"), PayloadOne),
      NewConfigMap("n1", "y", MapOf("app", "test"), PayloadOne),
      NewConfigMap("n2", "x", MapOf("app", "test"), PayloadTwo),
      NewConfigMap("n2", "x", MapOf("app", "other"), PayloadTwo),
      NewConfigMap("n3", "x", MapOf(ownerLabel, foreignOwner), PayloadTwo) }

Payloads == {PayloadOne, PayloadTwo}

\* the object store the operator finds when it starts: one object in n1
InitialStore == Put(EmptyMap, NewConfigMap("n1", "x", MapOf("app", "test"), PayloadOne))

\* mirror a alone, replicating its own namespace into n2 and n3
StandardMirrors ==
    [id \in {MirrorA} |->
        NewMirror(MirrorA, MirrorSpec("n1", <<"n2", "n3">>, SelApp, DbEnabled), <<>>)]

\* the mirrors the operator may find when it starts
InitialMirrors ==
    { [id \in {MirrorA} |-> NewMirror(MirrorA, spec, <<>>)] : spec \in SpecChoices }
    \cup { [id \in {MirrorA} |->
               NewMirror(MirrorA, MirrorSpec("n1", <<"n2", "n3">>, SelApp, DbEnabled),
                         <<foreignFinalizer>>)] }
    \cup { [id \in MirrorIds |->
               IF id = MirrorA
               THEN NewMirror(MirrorA, MirrorSpec("n1", <<"n2", "n3">>, SelApp, DbEnabled), <<>>)
               ELSE NewMirror(MirrorB, SpecOfB, <<>>)] }

\* the record of the last step: a user's edit
UserOp == [op |-> "User", mirror |-> MirrorA, fails |-> {}, err |-> FALSE,
           requeue |-> 0, path |-> "", listed |-> {}, orphans |-> {},
           created |-> {}, updated |-> {}, deleted |-> {}]

\* a worker of the controller between two passes: what a pass has listed,
\* read and decided so far is kept here while the pass is under way
IdleWorker ==
    [pc |-> "idle", source |-> {}, orphan |-> FALSE, existing |-> {}, stale |-> FALSE,
     targets |-> <<>>]

IdleWorkers == [id \in MirrorIds |-> IdleWorker]

(***************************************************************************)
(* The state machine.                                                      *)
(***************************************************************************)
Init ==
    /\ cms = InitialStore
    /\ mirrors \in InitialMirrors
    /\ db = {}
    /\ dbClient \in BOOLEAN
    /\ (~dbClient => mirrors = StandardMirrors)
    /\ last = UserOp
    /\ envSteps = 0
    /\ failures = 0
    /\ workers = IdleWorkers

\* the failure points a pass of mirror id can run into; calls fail only
\* while a single ConfigMirror exists
CandidatePoints(id) ==
    IF DOMAIN mirrors = MirrorIds THEN {}
    ELSE IF id \notin DOMAIN mirrors THEN {<<"get">>}
    ELSE LET configMirror == mirrors[id]
             targetSet == Range(configMirror.spec.targetNamespaces)
             prev == configMirror.status.replicatedConfigMaps
             listedNames == {n \in Names : Exists(cms, configMirror.namespace, n)}
             prevNames == {prev[i].name : i \in DOMAIN prev}
             terminating == configMirror.deleting
             compiles == ~LabelSelectorAsSelectorErr(configMirror.spec.selector)
             dbOn == DatabaseEnabled(dbClient, configMirror)
             Relevant(f) ==
                 CASE f[1] = "get" -> TRUE
                   [] f[1] = "finalizer" -> terminating = HasFinalizer(configMirror)
                   [] f[1] = "clist" -> terminating /\ f[2] \in targetSet
                   [] f[1] = "cdelete" -> terminating /\ f[3] \in targetSet
                   [] f[1] = "status" -> ~terminating
                   [] f[1] = "list" -> ~terminating /\ compiles
                   [] f[1] = "replicate" ->
                          /\ ~terminating /\ compiles
                          /\ f[2] \in listedNames /\ f[3] \in targetSet
                   [] f[1] = "save" ->
                          ~terminating /\ compiles /\ dbOn /\ f[2] \in listedNames
                   [] f[1] = "delete" ->
                          /\ ~terminating /\ compiles
                          /\ f[2] \in prevNames /\ f[3] \in targetSet
                   [] f[1] = "dbdelete" ->
                          ~terminating /\ compiles /\ dbOn /\ f[2] \in prevNames
                   [] OTHER -> ~terminating /\ compiles /\ dbOn
         IN  {f \in FailurePoints : Relevant(f)}

RECURSIVE FailSets(_, _)
FailSets(points, k) ==
    IF k = 0 THEN {{}}
    ELSE LET smaller == FailSets(points, k - 1)
         IN  smaller \cup {s \cup {f} : s \in smaller, f \in points}

\* a pass ends at a failed fetch or finalizer update, and at a failed list
\* with the status write alone left to fail
CanFailTogether(fails) ==
    /\ \A f \in fails : f[1] \in {"get", "finalizer"} => fails = {f}
    /\ <<"list">> \in fails => fails \subseteq {<<"list">>, <<"status">>}

\* one Reconcile pass for the identity id, with the failures it runs into
Reconcile(id) ==
    \E fails \in {s \in FailSets(CandidatePoints(id), MaxFailures - failures) :
                      CanFailTogether(s)} :
        \E r \in {ReconcileResult(id, cms, mirrors, db, dbClient, fails)} :
            /\ r.hit = fails
            /\ cms' = r.cms
            /\ mirrors' = r.mirrors
            /\ db' = r.db
            /\ last' = [op |-> "Reconcile", mirror |-> id, fails |-> fails,
                        err |-> r.err, requeue |-> r.requeue, path |-> r.path,
                        listed |-> r.listed, orphans |-> r.orphans,
                        created |-> (DOMAIN r.cms) \ (DOMAIN cms),
                        updated |-> {k \in (DOMAIN r.cms) \cap (DOMAIN cms) : r.cms[k] # cms[k]},
                        deleted |-> (DOMAIN cms) \ (DOMAIN r.cms)]
            /\ failures' = failures + Cardinality(fails)
            /\ UNCHANGED <<dbClient, envSteps, workers>>

UserStep ==
    /\ envSteps < MaxEnvSteps
    /\ envSteps' = envSteps + 1
    /\ last' = UserOp
    /\ UNCHANGED <<dbClient, failures, workers>>

\* kubectl apply of a new ConfigMap
UserCreateConfigMap(o) ==
    /\ UserStep
    /\ ~Exists(cms, o.namespace, o.name)
    /\ cms' = Put(cms, o)
    /\ UNCHANGED <<mirrors, db>>

\* kubectl apply that replaces data and binaryData
UserUpdateConfigMap(ns, name, payload) ==
    /\ UserStep
    /\ Exists(cms, ns, name)
    /\ cms[Key(ns, name)].data # payload.data
    /\ cms' = [cms EXCEPT ![Key(ns, name)].data = payload.data,
                          ![Key(ns, name)].binaryData = payload.binaryData]
    /\ UNCHANGED <<mirrors, db>>

\* kubectl label --overwrite app=v
UserLabelConfigMap(ns, name, v) ==
    /\ UserStep
    /\ Exists(cms, ns, name)
    /\ ~MapHas(cms[Key(ns, name)].labels, "app", v)
    /\ cms' = [cms EXCEPT ![Key(ns, name)].labels = MapSet(@, "app", v)]
    /\ UNCHANGED <<mirrors, db>>

\* kubectl delete configmap
UserDeleteConfigMap(ns, name) ==
    /\ UserStep
    /\ Exists(cms, ns, name)
    /\ cms' = Remove(cms, ns, name)
    /\ UNCHANGED <<mirrors, db>>

\* kubectl apply of a mirror spec with the last target namespace removed:
\* the generation goes up
UserEditSpec(id) ==
    /\ UserStep
    /\ id \in DOMAIN mirrors
    /\ Len(mirrors[id].spec.targetNamespaces) > 1
    /\ mirrors' = [mirrors EXCEPT
                      ![id].spec.targetNamespaces = SubSeq(@, 1, Len(@) - 1),
                      ![id].generation = @ + 1]
    /\ UNCHANGED <<cms, db>>

\* kubectl apply of a mirror spec whose selector does not compile: the
\* generation goes up
UserEditSelector(id) ==
    /\ UserStep
    /\ id \in DOMAIN mirrors
    /\ mirrors[id].spec.selector # SelBad
    /\ mirrors' = [mirrors EXCEPT ![id].spec.selector = SelBad,
                                  ![id].generation = @ + 1]
    /\ UNCHANGED <<cms, db>>

\* kubectl apply of the one-target spec with the database switched off, over
\* the same spec with the database on, once a pass has reported the database
\* connected: the generation goes up
UserDisableDatabase(id) ==
    /\ UserStep
    /\ id \in DOMAIN mirrors
    /\ mirrors[id].spec = MirrorSpec("n1", <<"n2">>, SelApp, DbEnabled)
    /\ mirrors[id].status.databaseStatus.connected
    /\ mirrors' = [mirrors EXCEPT ![id].spec.database = DbDisabled,
                                  ![id].generation = @ + 1]
    /\ UNCHANGED <<cms, db>>

\* kubectl delete configmirror: deletion intent, and removal at once when no
\* finalizer holds the mirror
UserDeleteMirror(id) ==
    /\ UserStep
    /\ id \in DOMAIN mirrors
    /\ ~mirrors[id].deleting
    /\ mirrors' = StoreMirror(mirrors, id, [mirrors[id] EXCEPT !.deleting = TRUE])
    /\ UNCHANGED <<cms, db>>

Next ==
    \/ \E id \in MirrorIds : Reconcile(id)
    \/ \E o \in UserConfigMaps : UserCreateConfigMap(o)
    \/ \E name \in Names, payload \in Payloads :
          UserUpdateConfigMap(UserNamespace, name, payload)
    \/ \E name \in Names, v \in AppValues : UserLabelConfigMap(UserNamespace, name, v)
    \/ \E name \in Names : UserDeleteConfigMap(UserNamespace, name)
    \/ \E id \in MirrorIds : UserEditSpec(id)
    \/ \E id \in MirrorIds : UserEditSelector(id)
    \/ \E id \in MirrorIds : UserDeleteMirror(id)
    \/ \E id \in MirrorIds : UserDisableDatabase(id)

Spec == Init /\ [][Next]_vars

(***************************************************************************)
(* Properties.                                                             *)
(***************************************************************************)
\* the step just taken was a Reconcile pass for id
PassOf(id) == last.op = "Reconcile" /\ last.mirror = id

\* ... that went through replication to the status step with no failed call
CleanPassOf(id) == PassOf(id) /\ last.path = "Replicated" /\ last.fails = {}

\* the object at <<ns, name>> exists and matches the selector of the spec
IsMatched(c, ns, name, spec) ==
    Exists(c, ns, name) /\ Matches(spec.selector, c[Key(ns, name)].labels)

\* the object at <<ns, name>> exists and bears the owner label of the mirror
IsOwned(c, ns, name, owner) ==
    Exists(c, ns, name) /\ HasOwner(c[Key(ns, name)], owner)

\* C1: after a failure-free pass of a non-terminating mirror, every object of
\* spec.sourceNamespace that matches the selector has, in every target
\* namespace, an object of its name with its data and binaryData and with
\* the mirror's owner label.
C1_MatchedSourcesReplicated ==
    \A id \in DOMAIN mirrors :
        CleanPassOf(id) =>
            \A n \in Names :
                IsMatched(cms, mirrors[id].spec.sourceNamespace, n, mirrors[id].spec) =>
                    \A t \in Range(mirrors[id].spec.targetNamespaces) :
                        /\ IsOwned(cms, t, n, mirrors[id])
                        /\ cms[Key(t, n)].data =
                               cms[Key(mirrors[id].spec.sourceNamespace, n)].data
                        /\ cms[Key(t, n)].binaryData =
                               cms[Key(mirrors[id].spec.sourceNamespace, n)].binaryData

\* C2: a pass leaves a target namespace without an object named like a
\* source object (an object of spec.sourceNamespace) that does not match the
\* selector, when there was none before the pass.
C2_UnmatchedNotReplicated ==
    [][\A id \in DOMAIN mirrors :
          (last'.op = "Reconcile" /\ last'.mirror = id) =>
              \A n \in Names, t \in Range(mirrors[id].spec.targetNamespaces) :
                  ( /\ Exists(cms, mirrors[id].spec.sourceNamespace, n)
                    /\ ~IsMatched(cms, mirrors[id].spec.sourceNamespace, n, mirrors[id].spec)
                    /\ ~Exists(cms, t, n) )
                  => ~Exists(cms', t, n)]_vars

\* C3: the source objects a failure-free pass records as replicated are the
\* objects of spec.sourceNamespace that match the selector, whatever the
\* mirror's own namespace.
C3_SourcesComeFromSourceNamespace ==
    \A id \in DOMAIN mirrors :
        CleanPassOf(id) =>
            LET entries == mirrors[id].status.replicatedConfigMaps
            IN  {<<entries[i].sourceNamespace, entries[i].name>> : i \in DOMAIN entries}
                = {<<mirrors[id].spec.sourceNamespace, n>> : n \in
                      {m \in Names : IsMatched(cms, mirrors[id].spec.sourceNamespace, m,
                                               mirrors[id].spec)}}

\* C4: a pass of a mirror leaves every object of a target namespace that
\* bears no owner label, or another owner's, as it was.
C4_OwnershipSafety ==
    [][\A id \in DOMAIN mirrors :
          (last'.op = "Reconcile" /\ last'.mirror = id) =>
              \A n \in Names, t \in Range(mirrors[id].spec.targetNamespaces) :
                  (Exists(cms, t, n) /\ ~IsOwned(cms, t, n, mirrors[id]))
                  => (Exists(cms', t, n) /\ cms'[Key(t, n)] = cms[Key(t, n)])]_vars

\* C5: a pass of a mirror leaves every matched object of spec.sourceNamespace
\* in place and as it was.
C5_SourceUntouched ==
    [][\A id \in DOMAIN mirrors :
          (last'.op = "Reconcile" /\ last'.mirror = id) =>
              \A n \in Names :
                  IsMatched(cms, mirrors[id].spec.sourceNamespace, n, mirrors[id].spec)
                  => ( /\ Exists(cms', mirrors[id].spec.sourceNamespace, n)
                       /\ cms'[Key(mirrors[id].spec.sourceNamespace, n)]
                              = cms[Key(mirrors[id].spec.sourceNamespace, n)] )]_vars

\* C6: once a pass has removed the finalizer of a terminating mirror, no
\* object of any namespace bears that mirror's owner label.
C6_NoDerivedObjectAfterFinalizer ==
    \A id \in MirrorIds :
        (PassOf(id) /\ last.path = "Finalized") =>
            \A t \in Namespaces, n \in Names : ~IsOwned(cms, t, n, id)

\* C7: the pass that removes the finalizer of a terminating mirror with
\* persistence enabled leaves no persisted record owned by that mirror.
C7_NoRecordAfterFinalizer ==
    [][\A id \in DOMAIN mirrors :
          ( /\ last'.op = "Reconcile" /\ last'.mirror = id /\ last'.path = "Finalized"
            /\ DatabaseEnabled(dbClient, mirrors[id]) )
          => GetConfigMaps(db', id.name, id.namespace) = {}]_vars

\* C8: a failure-free pass finds a source object that the mirror's status
\* records gone: afterwards no target namespace holds an object of that
\* name bearing the mirror's owner label and, with persistence enabled, the
\* table holds no record of that source for the mirror.
C8_OrphanCleanup ==
    [][\A id \in DOMAIN mirrors :
          ( /\ last'.op = "Reconcile" /\ last'.mirror = id
            /\ last'.path = "Replicated" /\ last'.fails = {} )
          => LET prev == mirrors[id].status.replicatedConfigMaps
             IN  \A i \in DOMAIN prev :
                    ~Exists(cms, prev[i].sourceNamespace, prev[i].name) =>
                        /\ \A t \in Range(mirrors[id].spec.targetNamespaces) :
                               ~IsOwned(cms', t, prev[i].name, mirrors[id])
                        /\ DatabaseEnabled(dbClient, mirrors[id]) =>
                               ~\E r \in db' : RowMatches(r, prev[i].name,
                                                          prev[i].sourceNamespace,
                                                          id.name, id.namespace)]_vars

\* a failure-free pass of mirror a has found x, which it had replicated from
\* n1, gone, and has deleted the copy in n2 and the record
C8_Witness ==
    /\ CleanPassOf(MirrorA)
    /\ "x" \in last.orphans
    /\ ~Exists(cms, "n1", "x")
    /\ Key("n2", "x") \in last.deleted
    /\ dbClient /\ mirrors[MirrorA].spec.database.enabled
    /\ GetConfigMaps(db, "a", "n1") = {}

\* C9: a failure-free pass finds a source object that the mirror's status
\* records relabelled out of the selector: afterwards no target namespace
\* holds an object of that name bearing the mirror's owner label, and the
\* source object is in place and as it was.
C9_RelabelOut ==
    [][\A id \in DOMAIN mirrors :
          ( /\ last'.op = "Reconcile" /\ last'.mirror = id
            /\ last'.path = "Replicated" /\ last'.fails = {} )
          => LET prev == mirrors[id].status.replicatedConfigMaps
             IN  \A i \in DOMAIN prev :
                    ( /\ Exists(cms, prev[i].sourceNamespace, prev[i].name)
                      /\ ~IsMatched(cms, prev[i].sourceNamespace, prev[i].name,
                                    mirrors[id].spec) )
                    => /\ \A t \in Range(mirrors[id].spec.targetNamespaces) :
                              ~IsOwned(cms', t, prev[i].name, mirrors[id])
                       /\ Exists(cms', prev[i].sourceNamespace, prev[i].name)
                       /\ cms'[Key(prev[i].sourceNamespace, prev[i].name)]
                              = cms[Key(prev[i].sourceNamespace, prev[i].name)]]_vars

\* C10: a failure-free pass finds a source object that the mirror's status
\* records, still matched, and an object of its name in a target namespace:
\* afterwards that object's data and binaryData are the source's, key for
\* key.
C10_UpdatePropagates ==
    [][\A id \in DOMAIN mirrors :
          ( /\ last'.op = "Reconcile" /\ last'.mirror = id
            /\ last'.path = "Replicated" /\ last'.fails = {} )
          => LET prev == mirrors[id].status.replicatedConfigMaps
             IN  \A i \in DOMAIN prev, t \in Range(mirrors[id].spec.targetNamespaces) :
                    ( /\ IsMatched(cms, prev[i].sourceNamespace, prev[i].name,
                                   mirrors[id].spec)
                      /\ Exists(cms, t, prev[i].name) )
                    => /\ Exists(cms', t, prev[i].name)
                       /\ cms'[Key(t, prev[i].name)].data
                              = cms[Key(prev[i].sourceNamespace, prev[i].name)].data
                       /\ cms'[Key(t, prev[i].name)].binaryData
                              = cms[Key(prev[i].sourceNamespace, prev[i].name)].binaryData]_vars

\* a failure-free pass of mirror a has rewritten the copy of x in n2, whose
\* source in n1 now holds PayloadTwo: the copy has lost key k2 and the
\* binary key
C10_Witness ==
    /\ CleanPassOf(MirrorA)
    /\ DOMAIN mirrors = {MirrorA}
    /\ "x" \in last.listed
    /\ Key("n2", "x") \in last.updated
    /\ IsOwned(cms, "n2", "x", MirrorA)
    /\ cms[Key("n1", "x")].data = PayloadTwo.data
    /\ cms[Key("n2", "x")].data = PayloadTwo.data
    /\ cms[Key("n2", "x")].binaryData = EmptyMap

\* the failure points of the calls cleanupConfigMaps makes
CleanupPoints ==
    {<<"clist", t>> : t \in Namespaces}
    \cup {<<"cdelete", n, t>> : n \in Names, t \in Namespaces}

\* C11: a pass of a terminating mirror that holds the finalizer, in which a
\* list or delete call of the cleanup fails, returns an error and leaves the
\* mirror in place with the finalizer.
C11_CleanupFailureKeepsFinalizer ==
    [][\A id \in DOMAIN mirrors :
          ( /\ last'.op = "Reconcile" /\ last'.mirror = id
            /\ mirrors[id].deleting /\ HasFinalizer(mirrors[id])
            /\ last'.fails \cap CleanupPoints # {} )
          => /\ last'.err
             /\ last'.requeue = 0
             /\ id \in DOMAIN mirrors'
             /\ HasFinalizer(mirrors'[id])]_vars

\* the delete of the copy of x in n3 has failed in the cleanup of the
\* terminating mirror a, after the copy in n2 was deleted: the pass returned
\* an error and a still holds the finalizer
C11_Witness ==
    /\ PassOf(MirrorA)
    /\ last.fails = {<<"cdelete", "x", "n3">>}
    /\ last.err
    /\ Key("n2", "x") \in last.deleted
    /\ MirrorA \in DOMAIN mirrors
    /\ mirrors[MirrorA].deleting
    /\ HasFinalizer(mirrors[MirrorA])
    /\ IsOwned(cms, "n3", "x", MirrorA)

\* the number of times finalizerName occurs among the mirror's finalizers
FinalizerCount(configMirror) ==
    Cardinality({i \in DOMAIN configMirror.finalizers :
                    configMirror.finalizers[i] = finalizerName})

\* C12: after a pass of a mirror without deletion intent that returns no
\* error, the mirror holds the finalizer, once.
C12_FinalizerPresentOnce ==
    [][\A id \in DOMAIN mirrors :
          ( /\ last'.op = "Reconcile" /\ last'.mirror = id
            /\ ~mirrors[id].deleting
            /\ ~last'.err )
          => /\ id \in DOMAIN mirrors'
             /\ FinalizerCount(mirrors'[id]) = 1]_vars

\* mirror a, created with another controller's finalizer, has been through
\* a first pass that added the finalizer and recorded x, and through a later
\* pass that found x gone: it holds the finalizer once, after the other one
C12_Witness ==
    /\ CleanPassOf(MirrorA)
    /\ "x" \in last.orphans
    /\ mirrors[MirrorA].finalizers = <<foreignFinalizer, finalizerName>>

\* the status entry the mirror holds for the source object named n
StatusEntries(configMirror, n) ==
    SelectSeq(configMirror.status.replicatedConfigMaps, LAMBDA e : e.name = n)

\* C13: in a pass in which replicateConfigMap fails for some target
\* namespaces of a listed source object and no other call fails, every other
\* target namespace of every listed object holds the copy afterwards, the
\* status entry of each object lists exactly the namespaces that succeeded,
\* in spec order, and the pass returns no error.
C13_PartialFailureContained ==
    [][\A id \in DOMAIN mirrors :
          ( /\ last'.op = "Reconcile" /\ last'.mirror = id
            /\ last'.fails # {}
            /\ \A f \in last'.fails : f[1] = "replicate" )
          => /\ ~last'.err
             /\ last'.path = "Replicated"
             /\ \A n \in last'.listed :
                    LET source == cms[Key(SourceListNamespace(mirrors[id]), n)]
                        ok == SelectSeq(mirrors[id].spec.targetNamespaces,
                                        LAMBDA t : <<"replicate", n, t>> \notin last'.fails)
                    IN  /\ \A t \in Range(ok) :
                               /\ IsOwned(cms', t, n, mirrors[id])
                               /\ cms'[Key(t, n)].data = source.data
                               /\ cms'[Key(t, n)].binaryData = source.binaryData
                        /\ StatusEntries(mirrors'[id], n) =
                               << [name |-> n, sourceNamespace |-> source.namespace,
                                   targets |-> ok] >>]_vars

\* replicating x into n2, the first target of mirror a, has failed: the pass
\* went on to create the copy in n3, recorded n3 alone for x and returned no
\* error
C13_Witness ==
    /\ PassOf(MirrorA)
    /\ last.fails = {<<"replicate", "x", "n2">>}
    /\ ~last.err
    /\ Key("n3", "x") \in last.created
    /\ ~Exists(cms, "n2", "x")
    /\ StatusEntries(mirrors[MirrorA], "x") =
           << [name |-> "x", sourceNamespace |-> "n1", targets |-> <<"n3">>] >>

\* the failure points of the database calls
DatabasePoints ==
    {<<"ping">>, <<"dbdown">>}
    \cup {<<"save", n>> : n \in Names}
    \cup {<<"dbdelete", n>> : n \in Names}

\* what a pass of mirror id would do from the current state with the
\* database out of the picture: the reconciler built with a nil client, the
\* spec without a database block or with it disabled, every database call
\* failing
WithoutDatabase(id, fails) ==
    << ReconcileResult(id, cms, mirrors, db, FALSE, fails),
      ReconcileResult(id, cms, [mirrors EXCEPT ![id].spec.database = DbNil], db,
                      dbClient, fails),
      ReconcileResult(id, cms, [mirrors EXCEPT ![id].spec.database = DbDisabled], db,
                      dbClient, fails),
      ReconcileResult(id, cms, mirrors, db, dbClient, fails \cup {<<"dbdown">>}) >>

\* the status of mirror id in ms apart from databaseStatus, with its
\* finalizers, or "gone"
StatusApartFromDatabase(ms, id) ==
    IF id \notin DOMAIN ms THEN <<"gone">>
    ELSE <<ms[id].status.conditions, ms[id].status.replicatedConfigMaps,
           ms[id].status.observedGeneration, ms[id].finalizers>>

\* C14: a pass run with a working database leaves the same objects, the
\* same replicatedConfigMaps, conditions and observedGeneration, and returns
\* the same error and requeue, as the pass would from the same state with a
\* nil client, without a database block, with the database disabled, or with
\* every database call failing.
C14_PersistenceIndependence ==
    [][\A id \in DOMAIN mirrors :
          ( /\ last'.op = "Reconcile" /\ last'.mirror = id
            /\ DatabaseEnabled(dbClient, mirrors[id])
            /\ last'.fails \cap DatabasePoints = {} )
          => \A alts \in {WithoutDatabase(id, last'.fails)} :
                \A i \in DOMAIN alts :
                    /\ alts[i].cms = cms'
                    /\ alts[i].err = last'.err
                    /\ alts[i].requeue = last'.requeue
                    /\ StatusApartFromDatabase(alts[i].mirrors, id)
                           = StatusApartFromDatabase(mirrors', id)]_vars

\* a failure-free pass of mirror a with a working database has found x gone
\* while y is there: it has deleted the copy and the row of x, and created
\* the copy and the row of y
C14_Witness ==
    /\ CleanPassOf(MirrorA)
    /\ dbClient /\ mirrors[MirrorA].spec.database.enabled
    /\ "x" \in last.orphans
    /\ Key("n2", "x") \in last.deleted
    /\ Key("n2", "y") \in last.created
    /\ {r.name : r \in GetConfigMaps(db, "a", "n1")} = {"y"}
    /\ mirrors[MirrorA].status.databaseStatus.connected

\* the owner label value of the object at <<ns, name>>, "" when it has none
OwnerOf(c, ns, name) ==
    IF ownerLabel \in DOMAIN c[Key(ns, name)].labels
    THEN c[Key(ns, name)].labels[ownerLabel] ELSE ""

\* C15: a failure-free pass that directly follows a failure-free pass of the
\* same mirror leaves the data, binaryData and owner label of every object of
\* the target namespaces, the rows of the table and the replicatedConfigMaps
\* list as the first pass left them.
C15_Idempotent ==
    [][\A id \in DOMAIN mirrors :
          ( /\ CleanPassOf(id)
            /\ last'.op = "Reconcile" /\ last'.mirror = id
            /\ last'.path = "Replicated" /\ last'.fails = {} )
          => /\ \A t \in Range(mirrors[id].spec.targetNamespaces), n \in Names :
                    /\ Exists(cms', t, n) = Exists(cms, t, n)
                    /\ Exists(cms, t, n) =>
                           /\ cms'[Key(t, n)].data = cms[Key(t, n)].data
                           /\ cms'[Key(t, n)].binaryData = cms[Key(t, n)].binaryData
                           /\ OwnerOf(cms', t, n) = OwnerOf(cms, t, n)
             /\ db' = db
             /\ mirrors'[id].status.replicatedConfigMaps
                    = mirrors[id].status.replicatedConfigMaps]_vars

\* C16: a pass for an identity whose mirror does not exist, with the fetch
\* itself not failing, returns no error and no requeue and leaves the
\* objects, the mirrors and the table as they were.
C16_NotFoundIsNoOp ==
    [][\A id \in MirrorIds :
          ( /\ last'.op = "Reconcile" /\ last'.mirror = id
            /\ id \notin DOMAIN mirrors
            /\ last'.fails = {} )
          => /\ ~last'.err
             /\ last'.requeue = 0
             /\ cms' = cms
             /\ db' = db
             /\ mirrors' = mirrors]_vars

\* mirror a is gone after its finalizer ran; a pass for its identity has
\* found nothing, with the source object and the row of x still there
C16_Witness ==
    /\ PassOf(MirrorA)
    /\ last.path = "NotFound"
    /\ ~last.err /\ last.requeue = 0
    /\ MirrorA \notin DOMAIN mirrors
    /\ Exists(cms, "n1", "x")
    /\ GetConfigMaps(db, "a", "n1") # {}

\* the conditions of type Ready the mirror holds
ReadyConditions(configMirror) ==
    SelectSeq(configMirror.status.conditions, LAMBDA cond : cond.type = "Ready")

\* the mirror holds one Ready condition, with this status and reason
ReadyIs(configMirror, status, reason) ==
    /\ Len(ReadyConditions(configMirror)) = 1
    /\ ReadyConditions(configMirror)[1].status = status
    /\ ReadyConditions(configMirror)[1].reason = reason

\* C17: a pass of a non-terminating mirror whose selector does not compile,
\* with no failing call, returns an error, leaves Ready False with reason
\* InvalidSelector, leaves every object and every row as it was, and leaves
\* replicatedConfigMaps and observedGeneration as they were.
C17_InvalidSelector ==
    [][\A id \in DOMAIN mirrors :
          ( /\ last'.op = "Reconcile" /\ last'.mirror = id
            /\ ~mirrors[id].deleting
            /\ mirrors[id].spec.selector = SelBad
            /\ last'.fails = {} )
          => /\ last'.err
             /\ last'.requeue = 0
             /\ ReadyIs(mirrors'[id], "False", "InvalidSelector")
             /\ cms' = cms
             /\ db' = db
             /\ mirrors'[id].status.replicatedConfigMaps
                    = mirrors[id].status.replicatedConfigMaps
             /\ mirrors'[id].status.observedGeneration
                    = mirrors[id].status.observedGeneration]_vars

\* mirror a had replicated x at generation 1 when its selector was replaced
\* by one that does not compile; the pass that followed returned an error
\* and left Ready False, the entry of x, observedGeneration 1 and the copies
C17_Witness ==
    /\ PassOf(MirrorA)
    /\ last.path = "InvalidSelector"
    /\ last.err
    /\ mirrors[MirrorA].generation = 2
    /\ mirrors[MirrorA].status.observedGeneration = 1
    /\ ReadyIs(mirrors[MirrorA], "False", "InvalidSelector")
    /\ Len(StatusEntries(mirrors[MirrorA], "x")) = 1
    /\ IsOwned(cms, "n2", "x", MirrorA)
    /\ GetConfigMaps(db, "a", "n1") # {}

\* C18: a pass in which the list of the source objects fails, and no other
\* call does, returns an error, leaves Ready False with reason ListFailed,
\* and leaves every object, every row and replicatedConfigMaps as they were.
C18_ListFailed ==
    [][\A id \in DOMAIN mirrors :
          ( /\ last'.op = "Reconcile" /\ last'.mirror = id
            /\ last'.fails = {<<"list">>} )
          => /\ last'.err
             /\ last'.requeue = 0
             /\ ReadyIs(mirrors'[id], "False", "ListFailed")
             /\ cms' = cms
             /\ db' = db
             /\ mirrors'[id].status.replicatedConfigMaps
                    = mirrors[id].status.replicatedConfigMaps]_vars

\* mirror a had replicated x when the source was deleted; the list of the
\* next pass failed: the pass returned an error, Ready is False, the entry
\* of x, its copy and its row are still there
C18_Witness ==
    /\ PassOf(MirrorA)
    /\ last.fails = {<<"list">>}
    /\ last.err
    /\ ReadyIs(mirrors[MirrorA], "False", "ListFailed")
    /\ ~Exists(cms, "n1", "x")
    /\ Len(StatusEntries(mirrors[MirrorA], "x")) = 1
    /\ IsOwned(cms, "n2", "x", MirrorA)
    /\ GetConfigMaps(db, "a", "n1") # {}

\* C19: after a pass that reaches the status step and whose status write
\* succeeds, replicatedConfigMaps holds, in list order, one entry for each
\* object the pass listed (the objects of the listed namespace that match
\* the selector) with its name, its namespace and the target namespaces its
\* replication succeeded in; observedGeneration is the mirror's generation;
\* Ready is True with reason ReconcileSuccess.
C19_StatusRebuilt ==
    [][\A id \in DOMAIN mirrors :
          ( /\ last'.op = "Reconcile" /\ last'.mirror = id
            /\ last'.path = "Replicated"
            /\ <<"status">> \notin last'.fails )
          => LET ns == SourceListNamespace(mirrors[id])
                 names == SelectSeq(NameOrder,
                                    LAMBDA n : IsMatched(cms, ns, n, mirrors[id].spec))
                 Targets(n) == SelectSeq(mirrors[id].spec.targetNamespaces,
                                         LAMBDA t : <<"replicate", n, t>> \notin last'.fails)
             IN  /\ last'.listed = Range(names)
                 /\ mirrors'[id].status.replicatedConfigMaps =
                        [i \in DOMAIN names |->
                            [name |-> names[i], sourceNamespace |-> ns,
                             targets |-> Targets(names[i])]]
                 /\ mirrors'[id].generation = mirrors[id].generation
                 /\ mirrors'[id].status.observedGeneration = mirrors[id].generation
                 /\ ReadyIs(mirrors'[id], "True", "ReconcileSuccess")]_vars

\* mirror a, whose spec was edited down to the target n2 (generation 2), has
\* been through a failure-free pass that listed x and y: it holds the two
\* entries, observedGeneration 2 and Ready True
C19_Witness ==
    /\ CleanPassOf(MirrorA)
    /\ last.listed = {"x", "y"}
    /\ mirrors[MirrorA].generation = 2
    /\ mirrors[MirrorA].status.observedGeneration = 2
    /\ mirrors[MirrorA].status.replicatedConfigMaps =
           << [name |-> "x", sourceNamespace |-> "n1", targets |-> <<"n2">>],
              [name |-> "y", sourceNamespace |-> "n1", targets |-> <<"n2">>] >>
    /\ ReadyIs(mirrors[MirrorA], "True", "ReconcileSuccess")

\* C20: the results of a pass that reaches the status step are stored, even
\* when the status write runs into a conflict: afterwards the mirror holds
\* an entry for each object the pass listed, and no other, and Ready True
\* with reason ReconcileSuccess.
C20_StatusNeverDropped ==
    [][\A id \in DOMAIN mirrors :
          ( /\ last'.op = "Reconcile" /\ last'.mirror = id
            /\ last'.path = "Replicated" )
          => LET entries == mirrors'[id].status.replicatedConfigMaps
             IN  /\ {entries[i].name : i \in DOMAIN entries} = last'.listed
                 /\ ReadyIs(mirrors'[id], "True", "ReconcileSuccess")]_vars

\* the failure points of the calls before the replication loop: the fetch, the
\* finalizer update and the list
EarlyPoints == {<<"get">>, <<"finalizer">>, <<"list">>}

\* a pass for id from the current state, running into fails, gets through
\* the fetch, the finalizer step, the compilation and the list
CompletesReplication(id, fails) ==
    /\ id \in DOMAIN mirrors
    /\ ~mirrors[id].deleting
    /\ ~LabelSelectorAsSelectorErr(mirrors[id].spec.selector)
    /\ fails \cap EarlyPoints = {}

\* C21: a pass that gets through the fetch, the finalizer step, the selector
\* compilation and the list returns no error and a requeue-after of 5
\* minutes, whatever fails later in it; every other pass (mirror not found,
\* mirror terminating, a failed fetch, finalizer update, compilation or
\* list) returns no requeue-after, and an error unless the mirror is not
\* found or terminating with its cleanup done.
C21_RequeueOnlyAfterReplication ==
    [][\A id \in MirrorIds :
          (last'.op = "Reconcile" /\ last'.mirror = id) =>
              IF CompletesReplication(id, last'.fails)
              THEN ~last'.err /\ last'.requeue = RequeueAfterMinutes
              ELSE /\ last'.requeue = 0
                   /\ last'.err = ~( /\ last'.fails = {}
                                     /\ (id \in DOMAIN mirrors => mirrors[id].deleting) )]_vars

\* a pass of mirror a in which the save of x and nothing else failed has
\* returned no error and the five-minute requeue
C21_Witness ==
    /\ PassOf(MirrorA)
    /\ last.fails = {<<"save", "x">>}
    /\ last.path = "Replicated"
    /\ ~last.err
    /\ last.requeue = RequeueAfterMinutes
    /\ IsOwned(cms, "n2", "x", MirrorA)

(***************************************************************************)
(* Event routing: the map function of the ConfigMap watch, checked on its  *)
(* own over mirror lists and changed objects.                              *)
(***************************************************************************)
\* a mirror that lives in namespace n2
MirrorC == [namespace |-> "n2", name |-> "c"]

\* the order in which a List call returns ConfigMirrors
MirrorOrder == <<MirrorA, MirrorB, MirrorC>>

RoutingSelectors == {SelApp, SelNotOther, SelBad}

\* the mirror lists the map function is run against: any of the three
\* mirrors, each with any of the selectors
RoutingMirrorLists ==
    UNION { { [id \in S |-> NewMirror(id, MirrorSpec(id.namespace, <<"n3">>, sels[id], DbNil),
                                      <<>>)] : sels \in [S -> RoutingSelectors] }
            : S \in SUBSET Range(MirrorOrder) }

\* the changed objects the watch delivers
EventObjects ==
    { NewConfigMap(ns, "x", labels, PayloadOne) :
          ns \in Namespaces,
          labels \in {EmptyMap, MapOf("app", "test"), MapOf("app", "other"),
                      MapSet(MapOf("app", "test"), ownerLabel, OwnerLabelValue(MirrorA))} }

\* a loop that gives up at the first mirror whose selector does not compile
RECURSIVE routeItemsAbortOnBadSelector(_, _, _, _)
routeItemsAbortOnBadSelector(ms, items, i, configMapObj) ==
    IF i > Len(items) THEN <<>>
    ELSE LET configMirror == ms[items[i]]
             rest == routeItemsAbortOnBadSelector(ms, items, i + 1, configMapObj)
         IN  IF LabelSelectorAsSelectorErr(configMirror.spec.selector) THEN <<>>
             ELSE IF Matches(configMirror.spec.selector, configMapObj.labels)
             THEN << [namespace |-> configMirror.namespace, name |-> configMirror.name] >>
                  \o rest
             ELSE rest

\* findConfigMirrorsForConfigMap, lines 298-312: the loop over the listed
\* mirrors; items are the identities the list returned, i the next one
RECURSIVE routeItems(_, _, _, _)
routeItems(ms, items, i, configMapObj) ==
    IF i > Len(items) THEN <<>>
    ELSE LET configMirror == ms[items[i]]
             rest == routeItems(ms, items, i + 1, configMapObj)
         IN  IF LabelSelectorAsSelectorErr(configMirror.spec.selector) THEN rest
             ELSE IF Matches(configMirror.spec.selector, configMapObj.labels)
             THEN << [namespace |-> configMirror.namespace, name |-> configMirror.name] >>
                  \o rest
             ELSE rest

\* r.List(ctx, configMirrorList, client.InNamespace(ns))
ListConfigMirrors(ms, ns) ==
    SelectSeq(MirrorOrder, LAMBDA id : id \in DOMAIN ms /\ ms[id].namespace = ns)

\* the requests the map function returns for a changed object; fail is the
\* failure of its List call
findConfigMirrorsForConfigMap(ms, configMapObj, fail) ==
    IF fail THEN <<>>
    ELSE routeItems(ms, ListConfigMirrors(ms, configMapObj.namespace), 1, configMapObj)

RoutingInit ==
    /\ mirrors \in RoutingMirrorLists
    /\ cms = InitialStore
    /\ db = {}
    /\ dbClient = FALSE
    /\ last = UserOp
    /\ envSteps = 0
    /\ failures = 0
    /\ workers = IdleWorkers

\* the watch delivers a changed object and the map function runs
ConfigMapEvent(configMapObj, fail) ==
    /\ last' = [op |-> "ConfigMapEvent", object |-> configMapObj, fail |-> fail,
                requests |-> findConfigMirrorsForConfigMap(mirrors, configMapObj, fail)]
    /\ UNCHANGED <<cms, mirrors, db, dbClient, envSteps, failures, workers>>

RoutingNext == \E configMapObj \in EventObjects, fail \in BOOLEAN : ConfigMapEvent(configMapObj, fail)

RoutingSpec == RoutingInit /\ [][RoutingNext]_vars

\* the mirrors of ms a changed object is to be routed to
RoutingTargets(ms, configMapObj) ==
    {id \in DOMAIN ms :
        /\ ms[id].namespace = configMapObj.namespace
        /\ ~LabelSelectorAsSelectorErr(ms[id].spec.selector)
        /\ Matches(ms[id].spec.selector, configMapObj.labels)}

\* C22: when its List call succeeds, the map function returns for a changed
\* object one request, and one only, for each mirror of the object's
\* namespace whose selector compiles and matches the object's labels, and no
\* other request; a mirror whose selector does not compile costs the other
\* mirrors nothing.
C22_EventRouting ==
    (last.op = "ConfigMapEvent" /\ ~last.fail) =>
        /\ Range(last.requests) = RoutingTargets(mirrors, last.object)
        /\ Len(last.requests) = Cardinality(RoutingTargets(mirrors, last.object))

\* an object of n1 labelled app=test has changed while mirror a, first in
\* the list, holds a selector that does not compile, mirror b matches and
\* mirror c lives in n2: the one request is for b
C22_Witness ==
    /\ last.op = "ConfigMapEvent" /\ ~last.fail
    /\ last.object.namespace = "n1"
    /\ DOMAIN mirrors = Range(MirrorOrder)
    /\ mirrors[MirrorA].spec.selector = SelBad
    /\ mirrors[MirrorC].spec.selector = SelApp
    /\ last.requests = << MirrorB >>

\* the Ready condition a pass writes at the end of the path it took
ReadyWritten(path) ==
    CASE path = "Replicated" ->
             [status |-> "True", reason |-> "ReconcileSuccess",
              message |-> "Successfully replicated ConfigMaps"]
      [] path = "InvalidSelector" ->
             [status |-> "False", reason |-> "InvalidSelector", message |-> "invalid selector"]
      [] path = "ListFailed" ->
             [status |-> "False", reason |-> "ListFailed", message |-> "list failed"]

\* C23: in every reachable state a mirror holds at most one condition of type
\* Ready; after a pass that wrote the status it holds exactly one, with the
\* status, reason and message of that pass.
C23_OneReadyCondition ==
    \A id \in DOMAIN mirrors :
        /\ Len(ReadyConditions(mirrors[id])) <= 1
        /\ ( /\ PassOf(id)
             /\ last.path \in {"Replicated", "InvalidSelector", "ListFailed"}
             /\ <<"status">> \notin last.fails )
           => /\ Len(ReadyConditions(mirrors[id])) = 1
              /\ ReadyConditions(mirrors[id])[1].status = ReadyWritten(last.path).status
              /\ ReadyConditions(mirrors[id])[1].reason = ReadyWritten(last.path).reason
              /\ ReadyConditions(mirrors[id])[1].message = ReadyWritten(last.path).message
              /\ ReadyConditions(mirrors[id])[1].observedGeneration = mirrors[id].generation

\* mirror a, Ready since the pass that replicated x, has been through a pass
\* whose list failed: its one condition now says False, ListFailed
C23_Witness ==
    /\ PassOf(MirrorA)
    /\ last.path = "ListFailed"
    /\ <<"status">> \notin last.fails
    /\ mirrors[MirrorA].status.replicatedConfigMaps # <<>>
    /\ mirrors[MirrorA].status.conditions =
           << [type |-> "Ready", status |-> "False",
               observedGeneration |-> mirrors[MirrorA].generation,
               reason |-> "ListFailed", message |-> "list failed"] >>

\* the labels the test of the replication looks for on a derived object
sourceNamespaceLabel == "mirror.pawapay.io/source-namespace"

sourceNameLabel == "mirror.pawapay.io/source-name"

\* C24: every object a pass creates carries the label
\* mirror.pawapay.io/source-namespace with the namespace of the source object
\* it was made from and the label mirror.pawapay.io/source-name with its
\* name.
C24_SourceLabels ==
    [][\A id \in DOMAIN mirrors :
          (last'.op = "Reconcile" /\ last'.mirror = id) =>
              \A k \in last'.created :
                  /\ MapHas(cms'[k].labels, sourceNamespaceLabel, SourceListNamespace(mirrors[id]))
                  /\ MapHas(cms'[k].labels, sourceNameLabel, k[2])]_vars

(***************************************************************************)
(* The persistence adapter on its own: saves and deletes against the       *)
(* table, in any order, each with or without a failure of the statement.   *)
(***************************************************************************)
\* the keys the calls are made with: one key and the four that differ from
\* it in one column
DbKeys ==
    { [name |-> "x", namespace |-> "n1", mirrorName |-> "a", mirrorNamespace |-> "n1"],
      [name |-> "y", namespace |-> "n1", mirrorName |-> "a", mirrorNamespace |-> "n1"],
      [name |-> "x", namespace |-> "n2", mirrorName |-> "a", mirrorNamespace |-> "n1"],
      [name |-> "x", namespace |-> "n1", mirrorName |-> "b", mirrorNamespace |-> "n1"],
      [name |-> "x", namespace |-> "n1", mirrorName |-> "a", mirrorNamespace |-> "n2"] }

\* the contents saved: data, labels and annotations
DbContents ==
    { [data |-> PayloadOne.data, labels |-> MapOf("app", "test"), annotations |-> EmptyMap],
      [data |-> PayloadTwo.data, labels |-> MapOf("app", "test"),
       annotations |-> MapOf("note", "v1")],
      [data |-> PayloadTwo.data, labels |-> MapOf("app", "other"), annotations |-> EmptyMap] }

\* the errors the adapter returns
ErrNil == "nil"

ErrNoRows == "pgx.ErrNoRows"

ErrSaveFailed == "failed to save ConfigMap: %w"

ErrDeleteFailed == "failed to delete ConfigMap: %w"

DbInit ==
    /\ db = {}
    /\ cms = InitialStore
    /\ mirrors = StandardMirrors
    /\ dbClient = TRUE
    /\ last = UserOp
    /\ envSteps = 0
    /\ failures = 0
    /\ workers = IdleWorkers

\* one call of Client.SaveConfigMap; fail is the failure of pool.Exec
SaveConfigMapCall(key, content, fail) ==
    LET cm == [name |-> key.name, namespace |-> key.namespace, data |-> content.data,
               binaryData |-> EmptyMap, labels |-> content.labels,
               annotations |-> content.annotations]
    IN  /\ db' = IF fail THEN db
                 ELSE SaveConfigMap(db, cm, key.mirrorName, key.mirrorNamespace)
        /\ last' = [op |-> "SaveConfigMap", key |-> key, content |-> content,
                    err |-> IF fail THEN ErrSaveFailed ELSE ErrNil]
        /\ UNCHANGED <<cms, mirrors, dbClient, envSteps, failures, workers>>

\* one call of Client.DeleteConfigMap; fail is the failure of pool.Exec
DeleteConfigMapCall(key, fail) ==
    /\ db' = IF fail THEN db
             ELSE DeleteConfigMap(db, key.name, key.namespace, key.mirrorName,
                                  key.mirrorNamespace)
    /\ last' = [op |-> "DeleteConfigMap", key |-> key, content |-> {},
                err |-> IF fail THEN ErrDeleteFailed
                        ELSE DeleteConfigMapResult(db, key.name, key.namespace,
                                                   key.mirrorName, key.mirrorNamespace)]
    /\ UNCHANGED <<cms, mirrors, dbClient, envSteps, failures, workers>>

DbNext ==
    \/ \E key \in DbKeys, content \in DbContents, fail \in BOOLEAN :
          SaveConfigMapCall(key, content, fail)
    \/ \E key \in DbKeys, fail \in BOOLEAN : DeleteConfigMapCall(key, fail)

DbSpec == DbInit /\ [][DbNext]_vars

\* the rows of d under the key
RowsOf(d, key) ==
    {r \in d : RowMatches(r, key.name, key.namespace, key.mirrorName, key.mirrorNamespace)}

\* C25: whatever saves and deletes were made, the table holds at most one
\* row per key (name, namespace, owner namespace, owner name); a save that
\* succeeds leaves under its key the one row with the data, labels and
\* annotations it was given, and leaves the rows of every other key as they
\* were; a save that fails, and a call for another key, leave the row as the
\* most recent successful save of the key wrote it.
C25_SaveIsUpsert ==
    [][/\ \A key \in DbKeys : Cardinality(RowsOf(db', key)) <= 1
       /\ (last'.op = "SaveConfigMap" /\ last'.err = ErrNil) =>
              /\ RowsOf(db', last'.key) =
                     { [name |-> last'.key.name, namespace |-> last'.key.namespace,
                        data |-> last'.content.data, labels |-> last'.content.labels,
                        annotations |-> last'.content.annotations,
                        configmirror_name |-> last'.key.mirrorName,
                        configmirror_namespace |-> last'.key.mirrorNamespace] }
              /\ \A key \in DbKeys \ {last'.key} : RowsOf(db', key) = RowsOf(db, key)
       /\ (last'.op = "SaveConfigMap" /\ last'.err # ErrNil) => db' = db
       /\ last'.op = "DeleteConfigMap" =>
              \A key \in DbKeys \ {last'.key} : RowsOf(db', key) = RowsOf(db, key)]_vars

\* the row of x in n1 owned by n1/a has been saved over: it holds the
\* second content, beside the row of the same object owned by n1/b, which
\* still holds the first
C25_Witness ==
    /\ last.op = "SaveConfigMap" /\ last.err = ErrNil
    /\ last.key = [name |-> "x", namespace |-> "n1", mirrorName |-> "a",
                   mirrorNamespace |-> "n1"]
    /\ Cardinality(db) = 2
    /\ \E r \in db : /\ r.configmirror_name = "a"
                      /\ r.data = PayloadTwo.data
                      /\ r.annotations = MapOf("note", "v1")
    /\ \E r \in db : /\ r.configmirror_name = "b"
                      /\ r.name = "x"
                      /\ r.data = PayloadOne.data

\* C26: a delete whose statement succeeds removes the row of its key when
\* there is one and returns nil, and returns pgx.ErrNoRows when there is
\* none; either way the rows of every other key stay as they were. A delete
\* whose statement fails leaves the table as it was and returns the wrapped
\* error, which is neither nil nor pgx.ErrNoRows. A delete that follows a
\* delete of the same key whose statement succeeded returns pgx.ErrNoRows.
C26_DeleteExactRow ==
    [][last'.op = "DeleteConfigMap" =>
          /\ last'.err \in {ErrNil, ErrNoRows, ErrDeleteFailed}
          /\ last'.err = ErrNil =>
                 /\ RowsOf(db, last'.key) # {}
                 /\ db' = db \ RowsOf(db, last'.key)
          /\ last'.err = ErrNoRows => (RowsOf(db, last'.key) = {} /\ db' = db)
          /\ last'.err = ErrDeleteFailed => db' = db
          /\ RowsOf(db', last'.key) = {} \/ last'.err = ErrDeleteFailed
          /\ ErrDeleteFailed \notin {ErrNil, ErrNoRows}
          /\ ( /\ last.op = "DeleteConfigMap"
               /\ last.key = last'.key
               /\ last.err # ErrDeleteFailed
               /\ last'.err # ErrDeleteFailed )
             => last'.err = ErrNoRows]_vars

\* the row of x in n1 owned by n1/a has been deleted, and a second delete
\* of the same key has found nothing; the rows of the same object owned by
\* n1/b and of y are still there
C26_Witness ==
    /\ last.op = "DeleteConfigMap" /\ last.err = ErrNoRows
    /\ last.key = [name |-> "x", namespace |-> "n1", mirrorName |-> "a",
                   mirrorNamespace |-> "n1"]
    /\ {<<r.name, r.configmirror_name>> : r \in db} = {<<"x", "b">>, <<"y", "a">>}

\* the last step was a pass of mirror id in which deletes of orphans or
\* replications into targets failed, and nothing else
TransientFailure(id) ==
    /\ PassOf(id)
    /\ last.fails # {}
    /\ \A f \in last.fails : f[1] \in {"delete", "replicate"}

\* the objects of the target namespaces that bear the owner label of mirror
\* id are the copies of the objects the mirror lists, one per target; a
\* mirror that is gone, terminating or without a selector that compiles has
\* nothing to repair
Repaired(id) ==
    \/ id \notin DOMAIN mirrors
    \/ mirrors[id].deleting
    \/ LabelSelectorAsSelectorErr(mirrors[id].spec.selector)
    \/ {k \in DOMAIN cms : /\ k[1] \in Range(mirrors[id].spec.targetNamespaces)
                            /\ HasOwner(cms[k], mirrors[id])}
         = {Key(t, n) : t \in Range(mirrors[id].spec.targetNamespaces),
                        n \in {m \in Names : IsMatched(cms, SourceListNamespace(mirrors[id]),
                                                       m, mirrors[id].spec)}}

\* C27: after a pass in which the delete of an orphan or the replication
\* into a target failed, the failure-free passes that follow bring the
\* objects bearing the mirror's owner label in the target namespaces to
\* exactly the copies of the matched source objects, one per target
\* namespace. A pass is a function of the objects, the mirrors and the
\* table, so once a failure-free pass has left all three as they were every
\* later one does: the repair must be complete by then.
C27_EventualRepair ==
    [][\A id \in MirrorIds :
          ( /\ TransientFailure(id)
            /\ last'.op = "Reconcile" /\ last'.mirror = id /\ last'.fails = {}
            /\ cms' = cms /\ mirrors' = mirrors /\ db' = db )
          => Repaired(id)']_vars

\* the names the stored status of the mirror tracks
TrackedNames(configMirror) ==
    {configMirror.status.replicatedConfigMaps[i].name :
        i \in DOMAIN configMirror.status.replicatedConfigMaps}

\* C28: after a pass that returns no error, every object that bears the
\* mirror's owner label in a namespace of spec.targetNamespaces has its name
\* in the stored status.replicatedConfigMaps, whether or not the status
\* write of the pass succeeded.
C28_OwnedObjectsTracked ==
    [][\A id \in DOMAIN mirrors :
          ( /\ last'.op = "Reconcile" /\ last'.mirror = id
            /\ ~last'.err
            /\ id \in DOMAIN mirrors' )
          => \A t \in Range(mirrors'[id].spec.targetNamespaces), n \in Names :
                 IsOwned(cms', t, n, mirrors'[id]) => n \in TrackedNames(mirrors'[id])]_vars

\* C29: a pass of a mirror deletes an object only in one of its target
\* namespaces and only if the object carried the mirror's owner label when
\* the pass read it. deleteReplicatedConfigMap returns success and deletes
\* nothing when the object is missing or carries no owner label or another
\* owner's, and deletes the object named, and no other, when it carries the
\* mirror's; a terminating pass deletes only objects that the list filtered
\* on the mirror's owner label returns.
C29_DeletesGatedByOwnerLabel ==
    [][\A id \in DOMAIN mirrors :
          /\ (last'.op = "Reconcile" /\ last'.mirror = id) =>
                 \A k \in last'.deleted :
                     /\ k[1] \in Range(mirrors[id].spec.targetNamespaces)
                     /\ IsOwned(cms, k[1], k[2], mirrors[id])
                     /\ mirrors[id].deleting =>
                            k[2] \in Range(ListOwned(cms, k[1], mirrors[id]))
          /\ \A t \in Namespaces, n \in Names :
                 \A r \in {deleteReplicatedConfigMap(cms, n, t, mirrors[id], FALSE)} :
                     /\ ~r.err
                     /\ r.cms = IF IsOwned(cms, t, n, mirrors[id])
                                THEN Remove(cms, t, n) ELSE cms]_vars

\* a pass of mirror a has found x orphaned: it has deleted its copy in n2
\* and left the object named x in n3, its other target, which bears no
\* owner label of a
C29_Witness ==
    /\ PassOf(MirrorA)
    /\ "x" \in last.orphans
    /\ Key("n2", "x") \in last.deleted
    /\ "n3" \in Range(mirrors[MirrorA].spec.targetNamespaces)
    /\ Exists(cms, "n3", "x")
    /\ ~IsOwned(cms, "n3", "x", MirrorA)

(***************************************************************************)
(* Two passes at once. The passes of one mirror are serialized by the work *)
(* queue; the passes of two mirrors may run on two workers, and then the   *)
(* calls they make on the store interleave. Here each call of a pass is a  *)
(* step of its own, for two mirrors that replicate the same source object  *)
(* into the same target namespace.                                         *)
(***************************************************************************)
\* the name of the one source object, in namespace n1
RaceName == "x"

\* the values of the label app the user gives the source: test is matched
\* by both mirrors, stage by mirror b alone
RaceAppValues == {"test", "stage"}

\* mirror a selects app=test, mirror b everything but app=other; both
\* replicate n1 into n2
RaceMirrors ==
    [id \in MirrorIds |->
        NewMirror(id,
                  MirrorSpec("n1", <<"n2">>, IF id = MirrorA THEN SelApp ELSE SelNotOther, DbNil),
                  <<finalizerName>>)]

RaceInit ==
    /\ cms = InitialStore
    /\ mirrors = RaceMirrors
    /\ db = {}
    /\ dbClient = FALSE
    /\ last = UserOp
    /\ envSteps = 0
    /\ failures = 0
    /\ workers = IdleWorkers

\* the record of a call a pass of mirror id has made
CallOp(op, id) == [UserOp EXCEPT !.op = op, !.mirror = id]

\* the first target namespace of the mirror
RaceTarget(id) == mirrors[id].spec.targetNamespaces[1]

\* a write to the object has given it a new resourceVersion: the copies the
\* other workers hold are out of date
MarkStale(w, id, changed) ==
    [k \in DOMAIN w |-> IF k # id /\ changed THEN [w[k] EXCEPT !.stale = TRUE] ELSE w[k]]

\* Reconcile, lines 95-110 and 139-148: the pass lists the source objects and
\* finds out whether the name it tracks is still among them
PassList(id) ==
    /\ workers[id].pc = "idle"
    /\ LET items == ListConfigMaps(cms, SourceListNamespace(mirrors[id]),
                                   mirrors[id].spec.selector)
           source == {items[i] : i \in DOMAIN items}
           orphan == /\ RaceName \in {mirrors[id].status.replicatedConfigMaps[i].name :
                                         i \in DOMAIN mirrors[id].status.replicatedConfigMaps}
                     /\ RaceName \notin {cm.name : cm \in source}
       IN  workers' = [workers EXCEPT ![id] =
                          [IdleWorker EXCEPT
                              !.pc = IF source # {} THEN "replicateGet"
                                     ELSE IF orphan THEN "deleteGet" ELSE "status",
                              !.source = source,
                              !.orphan = orphan]]
    /\ last' = CallOp("List", id)
    /\ UNCHANGED <<cms, mirrors, db, dbClient, envSteps, failures>>

\* replicateConfigMap, lines 201-202: r.Get of the object in the target
ReplicateGet(id) ==
    /\ workers[id].pc = "replicateGet"
    /\ workers' = [workers EXCEPT
                      ![id].pc = "replicateWrite",
                      ![id].existing = IF Exists(cms, RaceTarget(id), RaceName)
                                       THEN {cms[Key(RaceTarget(id), RaceName)]} ELSE {},
                      ![id].stale = FALSE]
    /\ last' = CallOp("Get", id)
    /\ UNCHANGED <<cms, mirrors, db, dbClient, envSteps, failures>>

\* replicateConfigMap, lines 203-217: r.Create when the Get found nothing,
\* which fails when the object is there by now; r.Update of the object read
\* otherwise, which fails when the object has been written or deleted since
ReplicateWrite(id) ==
    /\ workers[id].pc = "replicateWrite"
    /\ LET cm == CHOOSE o \in workers[id].source : TRUE
           there == Exists(cms, RaceTarget(id), RaceName)
           ok == IF workers[id].existing = {} THEN ~there
                 ELSE there /\ ~workers[id].stale
           written == IF ok
                      THEN replicateConfigMap(cms, cm, RaceTarget(id), mirrors[id], FALSE).cms
                      ELSE cms
       IN  /\ cms' = written
           /\ workers' = [MarkStale(workers, id, written # cms) EXCEPT
                             ![id].pc = "status",
                             ![id].targets = IF ok THEN <<RaceTarget(id)>> ELSE <<>>]
    /\ last' = CallOp(IF workers[id].existing = {} THEN "Create" ELSE "Update", id)
    /\ UNCHANGED <<mirrors, db, dbClient, envSteps, failures>>

\* deleteReplicatedConfigMap, lines 223-237: r.Get of the object and the check
\* of its owner label
DeleteGet(id) ==
    /\ workers[id].pc = "deleteGet"
    /\ LET existing == IF Exists(cms, RaceTarget(id), RaceName)
                       THEN {cms[Key(RaceTarget(id), RaceName)]} ELSE {}
       IN  workers' = [workers EXCEPT
                          ![id].pc = IF \E o \in existing : HasOwner(o, mirrors[id])
                                     THEN "deleteIssue" ELSE "status",
                          ![id].existing = existing,
                          ![id].stale = FALSE]
    /\ last' = CallOp("Get", id)
    /\ UNCHANGED <<cms, mirrors, db, dbClient, envSteps, failures>>

\* deleteReplicatedConfigMap, line 234: r.Delete of the object read, by name
\* and with no precondition on what the object is by now
DeleteIssue(id) ==
    /\ workers[id].pc = "deleteIssue"
    /\ cms' = IF Exists(cms, RaceTarget(id), RaceName)
              THEN Remove(cms, RaceTarget(id), RaceName) ELSE cms
    /\ workers' = [MarkStale(workers, id, cms' # cms) EXCEPT ![id].pc = "status"]
    /\ last' = CallOp("Delete", id)
    /\ UNCHANGED <<mirrors, db, dbClient, envSteps, failures>>

\* Reconcile, lines 165-183: the status of the pass is written
PassStatus(id) ==
    /\ workers[id].pc = "status"
    /\ mirrors' = [mirrors EXCEPT ![id].status.replicatedConfigMaps =
                      IF workers[id].source = {} THEN <<>>
                      ELSE << [name |-> RaceName,
                               sourceNamespace |-> SourceListNamespace(mirrors[id]),
                               targets |-> workers[id].targets] >>]
    /\ workers' = [workers EXCEPT ![id] = IdleWorker]
    /\ last' = CallOp("Status", id)
    /\ UNCHANGED <<cms, db, dbClient, envSteps, failures>>

\* kubectl label --overwrite app=v on the source object
UserRelabelSource(v) ==
    /\ ~MapHas(cms[Key("n1", RaceName)].labels, "app", v)
    /\ cms' = [cms EXCEPT ![Key("n1", RaceName)].labels = MapSet(@, "app", v)]
    /\ last' = UserOp
    /\ UNCHANGED <<mirrors, db, dbClient, envSteps, failures, workers>>

RaceNext ==
    \/ \E id \in MirrorIds : PassList(id)
    \/ \E id \in MirrorIds : ReplicateGet(id)
    \/ \E id \in MirrorIds : ReplicateWrite(id)
    \/ \E id \in MirrorIds : DeleteGet(id)
    \/ \E id \in MirrorIds : DeleteIssue(id)
    \/ \E id \in MirrorIds : PassStatus(id)
    \/ \E v \in RaceAppValues : UserRelabelSource(v)

RaceSpec == RaceInit /\ [][RaceNext]_vars

\* C30: whatever the interleaving of the calls of a pass of one mirror with
\* the calls of a pass of another mirror that replicates the same name into
\* the same namespace, the object a pass deletes carries, at the moment of
\* the delete, the owner label of the mirror the pass is for.
C30_DeleteSeesOwnLabel ==
    [][\A id \in MirrorIds :
          (workers[id].pc = "deleteIssue" /\ workers'[id].pc = "status") =>
              (Exists(cms, RaceTarget(id), RaceName) =>
                   IsOwned(cms, RaceTarget(id), RaceName, mirrors[id]))]_vars

(***************************************************************************)
(* Repeated passes. The work queue hands every identity to Reconcile again *)
(* and again; a round is one failure-free pass for each identity.          *)
(***************************************************************************)
\* the rounds after which the objects are looked at
StabRounds == 2

\* one failure-free pass for the identity id from the state s
PassOnce(id, s) ==
    LET r == ReconcileResult(id, s.cms, s.mirrors, s.db, dbClient, {})
    IN  [cms |-> r.cms, mirrors |-> r.mirrors, db |-> r.db]

Round(s) == PassOnce(MirrorB, PassOnce(MirrorA, s))

RECURSIVE Rounds(_, _)
Rounds(s, k) == IF k = 0 THEN s ELSE Rounds(Round(s), k - 1)

\* the derived objects of a store: data, binaryData and owner label of every
\* object that bears an owner label
DerivedView(c) ==
    [k \in {q \in DOMAIN c : ownerLabel \in DOMAIN c[q].labels} |->
        <<c[k].data, c[k].binaryData, c[k].labels[ownerLabel]>>]

\* C31: with the mirrors and the source objects of any reachable state left
\* as they are, StabRounds rounds of failure-free passes lead to a state in
\* which one more failure-free pass, of either identity, leaves the data and
\* the owner label of every derived object as they are.
C31_StabilisesWithSeveralMirrors ==
    LET s == Rounds([cms |-> cms, mirrors |-> mirrors, db |-> db], StabRounds)
    IN  \A id \in MirrorIds : DerivedView(PassOnce(id, s).cms) = DerivedView(s.cms)

\* C32: the pass that runs the finalizer cleanup of a mirror and removes its
\* finalizer leaves no object bearing the mirror's owner label in a namespace
\* that is no longer among spec.targetNamespaces; this is the latest point at
\* which the objects of a removed target namespace are to be deleted.
C32_RemovedTargetCleaned ==
    [][\A id \in DOMAIN mirrors :
          (last'.op = "Reconcile" /\ last'.mirror = id /\ last'.path = "Finalized") =>
              \A t \in Namespaces \ Range(mirrors[id].spec.targetNamespaces), n \in Names :
                  ~IsOwned(cms', t, n, mirrors[id])]_vars

\* the failure points of the orphan cleanup of a pass
OrphanPoints ==
    {<<"delete", n, t>> : n \in Names, t \in Namespaces}
    \cup {<<"dbdelete", n>> : n \in Names}

\* C33: in a pass that reaches the orphan cleanup and in which the delete of
\* an orphan's copy in a target namespace or the delete of its row fails,
\* every other copy of every orphan that bore the mirror's owner label in a
\* target namespace is gone afterwards, so is every orphan's row whose delete
\* did not fail; the pass returns no error and, unless the status write
\* itself fails, the mirror holds Ready=True afterwards.
C33_OrphanFailureContained ==
    [][\A id \in DOMAIN mirrors :
          ( /\ last'.op = "Reconcile" /\ last'.mirror = id
            /\ last'.path = "Replicated"
            /\ last'.fails \cap OrphanPoints # {} )
          => /\ ~last'.err
             /\ last'.requeue = RequeueAfterMinutes
             /\ <<"status">> \notin last'.fails =>
                    ReadyIs(mirrors'[id], "True", "ReconcileSuccess")
             /\ \A n \in last'.orphans :
                    /\ \A t \in Range(mirrors[id].spec.targetNamespaces) :
                           ( /\ <<"delete", n, t>> \notin last'.fails
                             /\ IsOwned(cms, t, n, mirrors[id]) )
                           => ~Exists(cms', t, n)
                    /\ ( /\ DatabaseEnabled(dbClient, mirrors[id])
                         /\ ~DbCallFails(<<"dbdelete", n>>, last'.fails) )
                       => {r \in GetConfigMaps(db', id.name, id.namespace) : r.name = n} = {}]_vars

\* the delete of the orphan x in n2, the first target of mirror a, has
\* failed: the pass went on to delete the copy in n3, returned no error and
\* left Ready=True, and the copy in n2 is still there
C33_Witness ==
    /\ PassOf(MirrorA)
    /\ last.fails = {<<"delete", "x", "n2">>}
    /\ ~last.err
    /\ Key("n3", "x") \in last.deleted
    /\ IsOwned(cms, "n2", "x", MirrorA)
    /\ ReadyIs(mirrors[MirrorA], "True", "ReconcileSuccess")

\* C34: a pass of a mirror without deletion intent that creates or updates an
\* object leaves the finalizer stored on the mirror; and when the mirror
\* lacks the finalizer and the update that adds it fails, the pass returns
\* the error with no requeue and leaves every object, every row and the
\* mirror as they were.
C34_FinalizerBeforeReplication ==
    [][\A id \in DOMAIN mirrors :
          (last'.op = "Reconcile" /\ last'.mirror = id /\ ~mirrors[id].deleting) =>
              /\ (last'.created \cup last'.updated # {}) =>
                     (id \in DOMAIN mirrors' /\ HasFinalizer(mirrors'[id]))
              /\ (~HasFinalizer(mirrors[id]) /\ <<"finalizer">> \in last'.fails) =>
                     /\ last'.err /\ last'.requeue = 0
                     /\ last'.created \cup last'.updated \cup last'.deleted = {}
                     /\ cms' = cms /\ db' = db /\ mirrors' = mirrors]_vars

\* the update that adds the finalizer to mirror a has failed while the
\* source x waits to be replicated into n2: the pass has returned the error,
\* the mirror is without finalizer and n2 is without a copy
C34_Witness ==
    /\ PassOf(MirrorA)
    /\ last.fails = {<<"finalizer">>}
    /\ last.err
    /\ MirrorA \in DOMAIN mirrors
    /\ ~mirrors[MirrorA].deleting /\ ~HasFinalizer(mirrors[MirrorA])
    /\ IsMatched(cms, "n1", "x", mirrors[MirrorA].spec)
    /\ "n2" \in Range(mirrors[MirrorA].spec.targetNamespaces)
    /\ ~Exists(cms, "n2", "x")

\* C35: a pass of a mirror with deletion intent creates and updates no
\* object, leaves the table as it is and leaves the status of the mirror as
\* it is; when the mirror is without the finalizer and the fetch succeeds,
\* the pass leaves every object, every row and the mirror as they were and
\* returns no error and no requeue.
C35_TerminatingPassOnlyCleans ==
    [][\A id \in DOMAIN mirrors :
          (last'.op = "Reconcile" /\ last'.mirror = id /\ mirrors[id].deleting) =>
              /\ last'.created \cup last'.updated = {}
              /\ db' = db
              /\ id \in DOMAIN mirrors' => mirrors'[id].status = mirrors[id].status
              /\ (~HasFinalizer(mirrors[id]) /\ <<"get">> \notin last'.fails) =>
                     /\ cms' = cms /\ mirrors' = mirrors
                     /\ ~last'.err /\ last'.requeue = 0]_vars

\* mirror a was deleted before any pass had given it the finalizer, and
\* another controller's finalizer keeps it: the pass has returned with no
\* error and no requeue, a is still there without status, and the source x
\* has no copy in n2
C35_Witness ==
    /\ PassOf(MirrorA)
    /\ last.path = "Terminating"
    /\ ~last.err /\ last.requeue = 0
    /\ MirrorA \in DOMAIN mirrors
    /\ mirrors[MirrorA].deleting /\ ~HasFinalizer(mirrors[MirrorA])
    /\ mirrors[MirrorA].status = NoStatus
    /\ IsMatched(cms, "n1", "x", mirrors[MirrorA].spec)
    /\ ~Exists(cms, "n2", "x")

\* a mirror as the API server holds it right after its creation: without
\* deletion intent, without the finalizer, with an empty status
NewlyCreated(configMirror) ==
    /\ ~configMirror.deleting
    /\ ~HasFinalizer(configMirror)
    /\ configMirror.status = NoStatus

C37_DatabaseStatusReflectsPing ==
    [][\A id \in DOMAIN mirrors :
          ( /\ last'.op = "Reconcile" /\ last'.mirror = id
            /\ last'.path = "Replicated"
            /\ <<"status">> \notin last'.fails )
          => IF DatabaseEnabled(dbClient, mirrors[id])
             THEN /\ mirrors'[id].status.databaseStatus.present
                  /\ mirrors'[id].status.databaseStatus.connected
                         <=> ~DbCallFails(<<"ping">>, last'.fails)
             ELSE mirrors'[id].status.databaseStatus
                      = mirrors[id].status.databaseStatus]_vars

\* mirror a reported the database connected, then its spec was applied with
\* the database switched off: the failure-free pass after that has stored
\* the new generation and left databaseStatus connected
C37_Witness ==
    /\ CleanPassOf(MirrorA)
    /\ dbClient
    /\ mirrors[MirrorA].spec.database = DbDisabled
    /\ mirrors[MirrorA].status.observedGeneration = mirrors[MirrorA].generation
    /\ mirrors[MirrorA].status.databaseStatus.present
    /\ mirrors[MirrorA].status.databaseStatus.connected

====
